---- MODULE Spec2Model ----
(***************************************************************************)
(* Response monitor for customer group chats (zhongyue-weixin).            *)
(*                                                                         *)
(* One tracked conversation (a group record held by the groups API) is     *)
(* written by two paths: the callback path (MonitorService                 *)
(* .simulateNewMessage, called by WeixinCallbackController for every group *)
(* message) and the sweep path (MonitorService.checkAllGroupsResponse,     *)
(* started every minute by the scheduled job and on demand by POST         *)
(* /api/check).  Every await of the TypeScript code is a point where the   *)
(* other path may run, so each awaited API call is a step of its own.      *)
(* Time is counted in whole minutes, the unit of moment().diff(..,         *)
(* 'minutes').  In the sweep specifications the groups API is taken to be  *)
(* available: its PATCH calls succeed and merge the fields of the request  *)
(* into the record.  SpecFaulty lets the reads, writes and sends of the    *)
(* scheduled sweep fail; SpecRecord lets the groups API answer the         *)
(* last-message PATCH either by merging the fields of the body or, as      *)
(* GroupApiService documents it, by storing the body in the field its      *)
(* type parameter names.                                                   *)
(*                                                                         *)
(* The callback route itself (WeixinCallbackController over                *)
(* WeixinCallbackUtil: signature check, decryption, parsing, reply) is     *)
(* modelled request by request: the variable probe holds the request, the  *)
(* state of the groups API and the reply.                                  *)
(*                                                                         *)
(* The remaining parts are modelled each under a specification of its own, *)
(* probe holding their state: the group detail sync (SpecSync), the paging *)
(* of the message archive (SpecArchive), the database connection with its  *)
(* retries (SpecConnect), the cached access token (SpecToken), the sends   *)
(* of WeixinService, which carry no timeout (SpecTimeouts), and the list   *)
(* of recent errors of CallbackStatsService (SpecStats).                   *)
(***************************************************************************)
EXTENDS Integers, Sequences, FiniteSets, TLC

VARIABLES
    now,              \* wall clock, in minutes
    alertThresholds,  \* MonitorService.alertThresholds (config.alert.thresholds)
    store,            \* the group record held by the groups API
    sweep,            \* the sweeps: scheduled job and manual /api/check
    alerts,           \* per alert level, the alerts sent (counted up to MaxCount)
    received,         \* number of callback messages received so far
    probe,            \* one application of an operation to chosen inputs, and its result
    additionalReceivers,  \* config.corpWeixin.additionalReceivers
    otherGroups       \* number of groups findAllGroups returns after the conversation

vars == <<now, alertThresholds, store, sweep, alerts, received, probe,
          additionalReceivers, otherGroups>>

-----------------------------------------------------------------------------
(* Bounds of the model *)

MaxTime == 2
MaxMessages == 2
MaxCount == 2
Horizon == 36
MaxElapsed == 200
MaxLevels == 3
LiveHorizon == 3
MaxBody == 2
MaxReceivers == 2
MaxArchive == 4
MaxRetries == 5
MaxClock == 800
MaxRecorded == 12
MaxTokens == 2
MaxBatch == 2

-----------------------------------------------------------------------------
(* Data *)

\* a null message field of the record
NoMessage == [fromType |-> "none", createTime |-> 0]

\* IMessage, reduced to the fields the monitor reads
IMessage(fromType, createTime) == [fromType |-> fromType, createTime |-> createTime]

\* a group record as the groups API creates it
NewGroup ==
    [lastMessage |-> NoMessage,
     lastEmployeeMessage |-> NoMessage,
     lastCustomerMessage |-> NoMessage,
     needAlert |-> FALSE,
     alertLevel |-> 0]

\* config.alert.thresholds default
DefaultThresholds == <<10, 30, 60, 120, 180>>

\* threshold minutes used to build the tables the scan is probed with
ThresholdMinutes == {10, 30, 60, 120, 180}

IsAscending(t) == \A i \in 1..(Len(t) - 1) : t[i] <= t[i + 1]

AscendingTables ==
    {t \in UNION {[1..n -> ThresholdMinutes] : n \in 1..MaxLevels} : IsAscending(t)}
        \cup {DefaultThresholds}

-----------------------------------------------------------------------------
(* The threshold scan of checkGroupResponse *)

\* for (let i = length - 1; i >= 0; i--) if (minutesPassed >= thresholds[i])
\*   { alertLevel = i + 1; break }          (i below is the TypeScript i + 1)
RECURSIVE ScanDown(_, _, _)
ScanDown(minutesPassed, thresholds, i) ==
    IF i < 1 THEN 0
    ELSE IF minutesPassed >= thresholds[i] THEN i
    ELSE ScanDown(minutesPassed, thresholds, i - 1)

\* the scan started from the lowest threshold: stops at the first one reached
RECURSIVE ScanUp(_, _, _)
ScanUp(minutesPassed, thresholds, i) ==
    IF i > Len(thresholds) THEN 0
    ELSE IF minutesPassed >= thresholds[i] THEN i
    ELSE ScanUp(minutesPassed, thresholds, i + 1)

ComputeAlertLevelFirstMatch(minutesPassed, thresholds) ==
    ScanUp(minutesPassed, thresholds, 1)

\* the level numbered from the highest threshold down: length - i, not i + 1
ComputeAlertLevelFromTop(minutesPassed, thresholds) ==
    LET i == ScanDown(minutesPassed, thresholds, Len(thresholds))
    IN  IF i = 0 THEN 0 ELSE Len(thresholds) - i + 1

ComputeAlertLevel(minutesPassed, thresholds) ==
    ScanDown(minutesPassed, thresholds, Len(thresholds))

-----------------------------------------------------------------------------
(* The groups API: PATCH merges the request's fields into the record *)

Patch(group, updateData) ==
    [f \in DOMAIN group |-> IF f \in DOMAIN updateData THEN updateData[f] ELSE group[f]]

\* the PATCH with the alertLevel left out of the request
updateGroupAlertSettingsWithoutLevel(group, needAlert, alertLevel) ==
    Patch(group, [needAlert |-> needAlert])

\* PATCH /api/groups/{id}/alert-settings
updateGroupAlertSettings(group, needAlert, alertLevel) ==
    Patch(group, [needAlert |-> needAlert, alertLevel |-> alertLevel])

\* PATCH /api/groups/{id}/last-message
updateGroupLastMessage(group, updateData) == Patch(group, updateData)

\* PATCH /api/groups/{id}/last-message?type=... as GroupApiService documents
\* it: the body is a message, stored in the one field the type names
LastMessageField(type) ==
    CASE type = "general" -> "lastMessage"
      [] type = "employee" -> "lastEmployeeMessage"
      [] type = "customer" -> "lastCustomerMessage"

updateGroupLastMessageByType(group, messageData, type) ==
    [group EXCEPT ![LastMessageField(type)] = messageData]

-----------------------------------------------------------------------------
(* Callback path: MonitorService.simulateNewMessage, called by the callback *)
(* controller for every group message.  findOneGroup only tells whether    *)
(* the record exists and nothing it returned is written back, so the       *)
(* handler acts on the record at one point, the awaited PATCH.             *)

\* updateData built from the message
UpdateData(message) ==
    IF message.fromType = "employee"
    THEN [lastMessage |-> message,
          lastEmployeeMessage |-> message,
          needAlert |-> FALSE,
          alertLevel |-> 0]
    ELSE [lastMessage |-> message,
          lastCustomerMessage |-> message]

simulateNewMessage(message) ==
    /\ received < MaxMessages
    /\ received' = received + 1
    /\ store' = updateGroupLastMessage(store, UpdateData(message))
    /\ UNCHANGED <<now, alertThresholds, sweep, alerts, probe,
                   additionalReceivers, otherGroups>>

-----------------------------------------------------------------------------
(* Sweep path: checkAndSendAlerts -> checkAllGroupsResponse ->             *)
(* checkGroupResponse -> sendAlert.  A sweep reads all groups once and     *)
(* evaluates each from that reading; the groups evaluated before this one  *)
(* are the time that passes between findAllGroups and checkGroupResponse.  *)

\* the scheduled job of index.ts and the manual POST /api/check
Sweeps == {"scheduled", "manual"}

\* group.owner of the conversation
Owner == "owner"

\* a sweep: where it stands, the record it read, the locals of
\* checkGroupResponse, the send attempts of sendAlert so far and the additional
\* receiver it comes to next, the groups it has evaluated after the conversation
IdleSweep ==
    [pc |-> "idle", group |-> NewGroup, minutesPassed |-> 0,
     needAlert |-> FALSE, alertLevel |-> 0,
     attempts |-> <<>>, receiver |-> 1, evaluated |-> 0]

\* the employee branch of checkGroupResponse never taken
LastMessageNeverEmployee(group) == FALSE

\* if (group.lastMessage && group.lastMessage.fromType === 'employee')
LastMessageFromEmployee(group) == group.lastMessage.fromType = "employee"

\* the update and the alert made on every evaluation, changed level or not
HasAlertChangeAlways(group, alertLevel) == TRUE

\* the level change never seen: no update and no alert
HasAlertChangeNever(group, alertLevel) == FALSE

\* const hasAlertChange = group.alertLevel !== alertLevel
HasAlertChange(group, alertLevel) == group.alertLevel # alertLevel

\* checkAllGroupsResponse: const groups = await findAllGroups()
findAllGroups(s) ==
    /\ sweep[s].pc = "idle"
    /\ sweep' = [sweep EXCEPT ![s] = [IdleSweep EXCEPT !.pc = "check", !.group = store]]
    /\ UNCHANGED <<now, alertThresholds, store, alerts, received, probe,
                   additionalReceivers, otherGroups>>

\* checkGroupResponse up to its first await
checkGroupResponse(s) ==
    LET group == sweep[s].group
        minutesPassed == now - group.lastCustomerMessage.createTime
        alertLevel == ComputeAlertLevel(minutesPassed, alertThresholds)
        needAlert == alertLevel > 0
    IN  /\ sweep[s].pc = "check"
        /\ sweep' = [sweep EXCEPT ![s] =
              IF group.lastCustomerMessage = NoMessage
              THEN [@ EXCEPT !.pc = "finished"]
              ELSE IF LastMessageFromEmployee(group)
              THEN [@ EXCEPT !.pc = "reset"]
              ELSE [@ EXCEPT !.pc = IF HasAlertChange(group, alertLevel)
                                    THEN "update" ELSE "finished",
                             !.minutesPassed = minutesPassed,
                             !.needAlert = needAlert,
                             !.alertLevel = alertLevel]]
        /\ UNCHANGED <<now, alertThresholds, store, alerts, received, probe,
                       additionalReceivers, otherGroups>>

\* the last message is the employee's: await updateGroupAlertSettings(id, {false, 0})
ResetAlertSettings(s) ==
    /\ sweep[s].pc = "reset"
    /\ store' = updateGroupAlertSettings(store, FALSE, 0)
    /\ sweep' = [sweep EXCEPT ![s].pc = "finished"]
    /\ UNCHANGED <<now, alertThresholds, alerts, received, probe,
                   additionalReceivers, otherGroups>>

\* the level stepped up by one from the stored one, not set to the computed one
UpdateAlertSettingsStepUp(s) ==
    /\ sweep[s].pc = "update"
    /\ store' = updateGroupAlertSettings(store, sweep[s].needAlert, store.alertLevel + 1)
    /\ sweep' = [sweep EXCEPT ![s].pc = IF sweep[s].needAlert THEN "send" ELSE "finished"]
    /\ UNCHANGED <<now, alertThresholds, alerts, received, probe,
                   additionalReceivers, otherGroups>>

\* the level changed: await updateGroupAlertSettings(id, {needAlert, alertLevel})
UpdateAlertSettings(s) ==
    /\ sweep[s].pc = "update"
    /\ store' = updateGroupAlertSettings(store, sweep[s].needAlert, sweep[s].alertLevel)
    /\ sweep' = [sweep EXCEPT ![s].pc = IF sweep[s].needAlert THEN "send" ELSE "finished"]
    /\ UNCHANGED <<now, alertThresholds, alerts, received, probe,
                   additionalReceivers, otherGroups>>

\* a send attempt of sendAlert: the receiver and what sendAppMessage returned
Attempt(receiver, sendResult) == [receiver |-> receiver, sendResult |-> sendResult]

\* sendAlert after the owner: the loop over the additional receivers, if any
AfterOwner == IF Len(additionalReceivers) > 0 THEN "receivers" ELSE "finished"

\* sendAlert({...group, needAlert, alertLevel}, minutesPassed): one more alert
\* of this level goes out to the owner through sendAppMessage
sendAlert(s) ==
    /\ sweep[s].pc = "send"
    /\ alerts' = [alerts EXCEPT ![sweep[s].alertLevel] = IF @ < MaxCount THEN @ + 1 ELSE @]
    /\ sweep' = [sweep EXCEPT ![s].pc = AfterOwner,
                              ![s].attempts = Append(@, Attempt(Owner, TRUE))]
    /\ UNCHANGED <<now, alertThresholds, store, received, probe,
                   additionalReceivers, otherGroups>>

\* the error of the send thrown on to sendAlert: no further receiver is tried
sendAlertThrows(s) ==
    /\ sweep[s].pc = "send"
    /\ sweep' = [sweep EXCEPT ![s].pc = "caught"]
    /\ UNCHANGED <<now, alertThresholds, store, alerts, received, probe,
                   additionalReceivers, otherGroups>>

\* sendAppMessage(alertMessage, owner) fails: it catches the error and returns
\* false, sendAlert logs the result and goes on
sendAlertFails(s) ==
    /\ sweep[s].pc = "send"
    /\ sweep' = [sweep EXCEPT ![s].pc = AfterOwner,
                              ![s].attempts = Append(@, Attempt(Owner, FALSE))]
    /\ UNCHANGED <<now, alertThresholds, store, alerts, received, probe,
                   additionalReceivers, otherGroups>>

\* if (!receiver || receiver === owner) continue, negated: the additional
\* receiver is sent the alert
Addressed(receiver) == receiver # "" /\ receiver # Owner

\* the loop over the additional receivers without the test: every entry is
\* sent the alert, the owner's too
sendAdditionalToAll(s, sendResult) ==
    LET receiver == additionalReceivers[sweep[s].receiver]
    IN  /\ sweep[s].pc = "receivers"
        /\ sweep' = [sweep EXCEPT
              ![s].pc = IF sweep[s].receiver = Len(additionalReceivers)
                        THEN "finished" ELSE "receivers",
              ![s].receiver = @ + 1,
              ![s].attempts = Append(@, Attempt(receiver, sendResult))]
        /\ UNCHANGED <<now, alertThresholds, store, alerts, received, probe,
                       additionalReceivers, otherGroups>>

\* for (const receiver of additionalReceivers): a receiver that is empty or
\* the owner is skipped, any other is sent the alert, with either result
sendAdditional(s, sendResult) ==
    LET receiver == additionalReceivers[sweep[s].receiver]
    IN  /\ sweep[s].pc = "receivers"
        /\ sweep' = [sweep EXCEPT
              ![s].pc = IF sweep[s].receiver = Len(additionalReceivers)
                        THEN "finished" ELSE "receivers",
              ![s].receiver = @ + 1,
              ![s].attempts = IF receiver # "" /\ receiver # Owner
                              THEN Append(@, Attempt(receiver, sendResult))
                              ELSE @]
        /\ UNCHANGED <<now, alertThresholds, store, alerts, received, probe,
                       additionalReceivers, otherGroups>>

\* the error of the write thrown on to checkAllGroupsResponse: the loop over
\* the groups is left
updateGroupAlertSettingsPropagates(s) ==
    /\ sweep[s].pc \in {"reset", "update"}
    /\ sweep' = [sweep EXCEPT ![s].pc = "thrown"]
    /\ UNCHANGED <<now, alertThresholds, store, alerts, received, probe,
                   additionalReceivers, otherGroups>>

\* await updateGroupAlertSettings(...) throws (the groups API is down or
\* answers with an error): nothing is written and control is in the catch of
\* checkGroupResponse
updateGroupAlertSettingsFails(s) ==
    /\ sweep[s].pc \in {"reset", "update"}
    /\ sweep' = [sweep EXCEPT ![s].pc = "caught"]
    /\ UNCHANGED <<now, alertThresholds, store, alerts, received, probe,
                   additionalReceivers, otherGroups>>

\* the alert sent from the catch all the same, the level written or not
catchGroupErrorThenAlert(s) ==
    /\ sweep[s].pc = "caught"
    /\ sweep' = [sweep EXCEPT ![s].pc = IF sweep[s].needAlert THEN "send" ELSE "finished"]
    /\ UNCHANGED <<now, alertThresholds, store, alerts, received, probe,
                   additionalReceivers, otherGroups>>

\* catch (error) of checkGroupResponse: the error is logged and the call returns
catchGroupError(s) ==
    /\ sweep[s].pc = "caught"
    /\ sweep' = [sweep EXCEPT ![s].pc = "finished"]
    /\ UNCHANGED <<now, alertThresholds, store, alerts, received, probe,
                   additionalReceivers, otherGroups>>

\* for (const group of groups): checkGroupResponse(group) for a group after
\* the conversation, which returns whatever happens inside
checkNextGroup(s) ==
    /\ sweep[s].pc = "finished"
    /\ sweep[s].evaluated < otherGroups
    /\ sweep' = [sweep EXCEPT ![s].evaluated = @ + 1]
    /\ UNCHANGED <<now, alertThresholds, store, alerts, received, probe,
                   additionalReceivers, otherGroups>>

\* the loop over the groups is through; the sweep ends and the job is free again
checkAllGroupsResponse(s) ==
    /\ sweep[s].pc = "finished"
    /\ sweep[s].evaluated = otherGroups
    /\ sweep' = [sweep EXCEPT ![s] = IdleSweep]
    /\ UNCHANGED <<now, alertThresholds, store, alerts, received, probe,
                   additionalReceivers, otherGroups>>

\* await findAllGroups() throws: checkAllGroupsResponse logs and rethrows, no
\* group is evaluated
findAllGroupsFails(s) ==
    /\ sweep[s].pc = "idle"
    /\ sweep' = [sweep EXCEPT ![s].pc = "thrown"]
    /\ UNCHANGED <<now, alertThresholds, store, alerts, received, probe,
                   additionalReceivers, otherGroups>>

\* the error of the sweep left uncaught: the job is gone
SweepErrorUncaught(s) ==
    /\ sweep[s].pc = "thrown"
    /\ sweep' = [sweep EXCEPT ![s].pc = "stopped"]
    /\ UNCHANGED <<now, alertThresholds, store, alerts, received, probe,
                   additionalReceivers, otherGroups>>

\* the catch around checkAndSendAlerts: the scheduled job logs the error, POST
\* /api/check answers 500; the job stays scheduled
catchSweepError(s) ==
    /\ sweep[s].pc = "thrown"
    /\ sweep' = [sweep EXCEPT ![s] = IdleSweep]
    /\ UNCHANGED <<now, alertThresholds, store, alerts, received, probe,
                   additionalReceivers, otherGroups>>

\* simulateNewMessage of a recorded group, with the groups API answering the
\* PATCH in either way: simulateNewMessage passes its updateData (lastMessage,
\* lastEmployeeMessage or lastCustomerMessage, needAlert, alertLevel) as the
\* body and no type, so the type is 'general'.  A server that takes the
\* fields of the body stores each of them; a server that does as documented
\* stores the body as lastMessage
recordMessage ==
    /\ probe.pc = "ready"
    /\ store' = IF probe.server = "fields"
                THEN updateGroupLastMessage(store, UpdateData(probe.message))
                ELSE updateGroupLastMessageByType(store, UpdateData(probe.message), "general")
    /\ received' = received + 1
    /\ probe' = [probe EXCEPT !.pc = "done"]
    /\ UNCHANGED <<now, alertThresholds, sweep, alerts,
                   additionalReceivers, otherGroups>>

-----------------------------------------------------------------------------
(* MonitorService.syncGroupDetail on a conversation the groups API holds a   *)
(* record of.  The record is the message fields and alert settings of store  *)
(* together with name, owner and members, kept in probe.detail.              *)

\* a record of the fields of a and, for the rest, of b
Merge(a, b) ==
    [f \in DOMAIN a \cup DOMAIN b |-> IF f \in DOMAIN a THEN a[f] ELSE b[f]]

Restrict(r, fields) == [f \in fields |-> r[f]]

\* String.prototype.trim on the names and owners the detail is drawn from
Trim(str) ==
    CASE str = " " -> ""
      [] str = " Sales " -> "Sales"
      [] OTHER -> str

\* if (!groupDetail.name || groupDetail.name.trim() === '') name = default name
CleanName(name) == IF name = "" \/ Trim(name) = "" THEN "unnamed" ELSE Trim(name)

\* if (!groupDetail.owner || groupDetail.owner.trim() === '') owner = 'unknown'
CleanOwner(owner) == IF owner = "" \/ Trim(owner) = "" THEN "unknown" ELSE Trim(owner)

\* (groupDetail.member_list || []).map(member => ({userId, userType, name}))
Members(member_list) ==
    [i \in DOMAIN member_list |->
        [userId |-> IF member_list[i].userid = "" THEN "unknown" ELSE member_list[i].userid,
         userType |-> IF member_list[i].type = 1 THEN "employee" ELSE "customer",
         name |-> IF member_list[i].name = "" THEN "unknown user" ELSE member_list[i].name]]

\* the body of updateGroup(group.id, {name, owner, members})
UpdateGroupRequest(groupDetail) ==
    [name |-> CleanName(groupDetail.name),
     owner |-> CleanOwner(groupDetail.owner),
     members |-> Members(groupDetail.member_list)]

\* PUT in place of PATCH: the fields the request leaves out are reset
updateGroupReplacing(group, updateData) ==
    [f \in DOMAIN group |->
        IF f \in DOMAIN updateData THEN updateData[f]
        ELSE IF f \in DOMAIN NewGroup THEN NewGroup[f] ELSE group[f]]

\* PATCH /api/groups/{id}: partial update
updateGroup(group, updateData) == Patch(group, updateData)

\* const groupDetail = await this.weixinService.getGroupChatDetail(chatId),
\* then the cleaning of name and owner and the mapping of the members
getGroupChatDetail ==
    /\ probe.pc = "ready"
    /\ probe' = [probe EXCEPT !.pc = "detail",
                              !.request = UpdateGroupRequest(probe.groupDetail)]
    /\ UNCHANGED <<now, alertThresholds, store, sweep, alerts, received,
                   additionalReceivers, otherGroups>>

\* getGroupChatDetail throws (no token, HTTP error, errcode # 0): catch, return null
getGroupChatDetailFails ==
    /\ probe.pc = "ready"
    /\ probe' = [probe EXCEPT !.pc = "done", !.returned = "null"]
    /\ UNCHANGED <<now, alertThresholds, store, sweep, alerts, received,
                   additionalReceivers, otherGroups>>

\* findOrCreateGroup(chatId, defaults): getGroupByChatId finds the record,
\* nothing is created
findOrCreateGroup ==
    /\ probe.pc = "detail"
    /\ probe' = [probe EXCEPT !.pc = "found", !.group = Merge(store, probe.detail)]
    /\ UNCHANGED <<now, alertThresholds, store, sweep, alerts, received,
                   additionalReceivers, otherGroups>>

\* getGroupByChatId throws (any error but 404): catch, return null
findOrCreateGroupFails ==
    /\ probe.pc = "detail"
    /\ probe' = [probe EXCEPT !.pc = "done", !.returned = "null"]
    /\ UNCHANGED <<now, alertThresholds, store, sweep, alerts, received,
                   additionalReceivers, otherGroups>>

\* if (!created && group.id): updateGroup(group.id, {name, owner, members});
\* the updated record is returned
syncGroupDetail ==
    LET updatedGroup == updateGroup(Merge(store, probe.detail), probe.request)
    IN  /\ probe.pc = "found"
        /\ store' = Restrict(updatedGroup, DOMAIN store)
        /\ probe' = [probe EXCEPT !.pc = "done",
                                  !.detail = Restrict(updatedGroup, {"name", "owner", "members"}),
                                  !.returned = "group",
                                  !.group = updatedGroup]
        /\ UNCHANGED <<now, alertThresholds, sweep, alerts, received,
                       additionalReceivers, otherGroups>>

\* updateGroup throws: nothing is written; catch, return null
updateGroupFails ==
    /\ probe.pc = "found"
    /\ probe' = [probe EXCEPT !.pc = "done", !.returned = "null"]
    /\ UNCHANGED <<now, alertThresholds, store, sweep, alerts, received,
                   additionalReceivers, otherGroups>>

-----------------------------------------------------------------------------
(* MessageArchiveService.getAllChatRecordsFromGoService.  The archive is the *)
(* sequence of its records, a record being a group message (it has a roomid) *)
(* or not; the record at index i has the sequence number i.  probe holds the *)
(* archive, the arguments and the locals of the call.                        *)

\* the sequence numbers from, from + 1, ... up to to, in order
SeqRange(from, to) == [i \in 1..(IF to >= from THEN to - from + 1 ELSE 0) |-> from + i - 1]

\* GetChatData(seq, limit) of the platform SDK behind POST /get_chat_data: the
\* records after seq, limit of them at most
GetChatData(archive, seq, limit) ==
    SeqRange(seq + 1, IF seq + limit < Len(archive) THEN seq + limit ELSE Len(archive))

\* getChatRecordsFromGoService(seq, limit, 3, true): the page, of which the
\* records with a roomid are returned
getChatRecordsFromGoService(archive, seq, limit) ==
    LET hasRoomId(i) == archive[i] = "group"
    IN  SelectSeq(GetChatData(archive, seq, limit), hasRoomId)

\* the loop left only by a page the archive has no record for
NoFurtherRecords(archive, seq, limit) == GetChatData(archive, seq, limit) = <<>>

\* if (groupRecords.length === 0) break
NoGroupRecords(archive, seq, limit) == getChatRecordsFromGoService(archive, seq, limit) = <<>>

\* one turn of the while (true) of getAllChatRecordsFromGoService
getAllChatRecordsFromGoService ==
    LET groupRecords ==
            getChatRecordsFromGoService(probe.archive, probe.currentSeq, probe.batchSize)
    IN  /\ probe.pc = "paging"
        /\ probe' = IF NoGroupRecords(probe.archive, probe.currentSeq, probe.batchSize)
                    THEN [probe EXCEPT !.pc = "returned"]
                    ELSE [probe EXCEPT
                             !.allGroupRecords = @ \o groupRecords,
                             !.currentSeq = @ + probe.batchSize]
        /\ UNCHANGED <<now, alertThresholds, store, sweep, alerts, received,
                       additionalReceivers, otherGroups>>

\* getChatRecordsFromGoService throws (HTTP error, errcode # 0): the error is
\* logged and thrown on, nothing is returned
getChatRecordsFromGoServiceFails ==
    /\ probe.pc = "paging"
    /\ probe' = [probe EXCEPT !.pc = "thrown"]
    /\ UNCHANGED <<now, alertThresholds, store, sweep, alerts, received,
                   additionalReceivers, otherGroups>>

-----------------------------------------------------------------------------
(* utils/database.ts: initConnection(retryCount = 0, maxRetries = 5).  probe *)
(* holds the arguments and counts the calls of sequelize.authenticate        *)
(* (attempts) and the connections they try (connections, tries within the    *)
(* call under way).  The Sequelize instance is created with retry: {match:   *)
(* connection errors, max: 10}, under which a query, authenticate's too, is  *)
(* run again on a matching error, up to max runs in all.                     *)

\* retry.max of the Sequelize options
SequelizeRetryMax == 10

\* the recursion going on while retryCount <= maxRetries: one attempt more
CanRetryOnceMore(retryCount, maxRetries) == retryCount <= maxRetries

\* if (retryCount < maxRetries)
CanRetry(retryCount, maxRetries) == retryCount < maxRetries

\* inside sequelize.authenticate(): the connection fails with an error the
\* retry option matches and the query is run again
authenticateRetries ==
    /\ probe.pc = "authenticate"
    /\ probe.tries + 1 < SequelizeRetryMax
    /\ probe' = [probe EXCEPT !.tries = @ + 1, !.connections = @ + 1]
    /\ UNCHANGED <<now, alertThresholds, store, sweep, alerts, received,
                   additionalReceivers, otherGroups>>

\* await sequelize.authenticate() returns: return true
authenticate ==
    /\ probe.pc = "authenticate"
    /\ probe' = [probe EXCEPT !.pc = "returned", !.result = TRUE,
                              !.attempts = @ + 1, !.connections = @ + 1]
    /\ UNCHANGED <<now, alertThresholds, store, sweep, alerts, received,
                   additionalReceivers, otherGroups>>

\* await sequelize.authenticate() throws: wait and call initConnection again,
\* or return false when retryCount has reached maxRetries
authenticateFails ==
    /\ probe.pc = "authenticate"
    /\ probe' = IF CanRetry(probe.retryCount, probe.maxRetries)
                THEN [probe EXCEPT !.pc = "waiting",
                                   !.attempts = @ + 1, !.connections = @ + 1]
                ELSE [probe EXCEPT !.pc = "returned", !.result = FALSE,
                                   !.attempts = @ + 1, !.connections = @ + 1]
    /\ UNCHANGED <<now, alertThresholds, store, sweep, alerts, received,
                   additionalReceivers, otherGroups>>

\* the delay of (retryCount + 1) * 5000 ms is over:
\* return initConnection(retryCount + 1, maxRetries)
initConnection ==
    /\ probe.pc = "waiting"
    /\ probe' = [probe EXCEPT !.pc = "authenticate", !.retryCount = @ + 1, !.tries = 0]
    /\ UNCHANGED <<now, alertThresholds, store, sweep, alerts, received,
                   additionalReceivers, otherGroups>>

-----------------------------------------------------------------------------
(* WeixinService.getAccessToken.  probe holds the fields accessToken ('' is  *)
(* 0, a token the number of its issue) and tokenExpireTime of the service,   *)
(* the calls under way (the service is shared by the sweep and the routes,   *)
(* so two calls may be awaiting the fetch at once) and the number of tokens  *)
(* issued.  In this part now is Date.now() in seconds.                       *)

Callers == {"sweep", "route"}

\* the cached token returned whatever the time
TokenCached(accessToken, tokenExpireTime, t) == accessToken # 0

\* if (this.accessToken && Date.now() < this.tokenExpireTime)
TokenValid(accessToken, tokenExpireTime, t) == accessToken # 0 /\ t < tokenExpireTime

\* this.tokenExpireTime = Date.now() + (expires_in - 300) * 1000
ExpireTime(t, expires_in) == t + (expires_in - 300)

IdleCall == [pc |-> "idle", token |-> 0, cached |-> FALSE, at |-> 0, expire |-> 0]

\* getAccessToken() up to its await: the cached token is returned, or the
\* token is asked for
getAccessToken(c) ==
    /\ probe.call[c].pc = "idle"
    /\ probe' = IF TokenValid(probe.accessToken, probe.tokenExpireTime, now)
                THEN [probe EXCEPT !.call[c] =
                         [pc |-> "returned", token |-> probe.accessToken, cached |-> TRUE,
                          at |-> now, expire |-> probe.tokenExpireTime]]
                ELSE [probe EXCEPT !.call[c].pc = "fetching"]
    /\ UNCHANGED <<now, alertThresholds, store, sweep, alerts, received,
                   additionalReceivers, otherGroups>>

\* the response holds access_token and expires_in: both fields are set and the
\* new token is returned
gettoken(c, expires_in) ==
    /\ probe.call[c].pc = "fetching"
    /\ probe.issued < MaxTokens
    /\ probe' = [probe EXCEPT
          !.issued = @ + 1,
          !.accessToken = probe.issued + 1,
          !.tokenExpireTime = ExpireTime(now, expires_in),
          !.call[c] = [pc |-> "returned", token |-> probe.issued + 1, cached |-> FALSE,
                       at |-> now, expire |-> ExpireTime(now, expires_in)]]
    /\ UNCHANGED <<now, alertThresholds, store, sweep, alerts, received,
                   additionalReceivers, otherGroups>>

\* axios.get throws or the response holds no access_token: the error is
\* logged and thrown on
gettokenFails(c) ==
    /\ probe.call[c].pc = "fetching"
    /\ probe' = [probe EXCEPT !.call[c].pc = "thrown"]
    /\ UNCHANGED <<now, alertThresholds, store, sweep, alerts, received,
                   additionalReceivers, otherGroups>>

\* the caller is through with the result and may call again
nextCall(c) ==
    /\ probe.call[c].pc \in {"returned", "thrown"}
    /\ probe' = [probe EXCEPT !.call[c] = IdleCall]
    /\ UNCHANGED <<now, alertThresholds, store, sweep, alerts, received,
                   additionalReceivers, otherGroups>>

\* 100 seconds pass
ClockTick ==
    /\ now < MaxClock
    /\ now' = now + 100
    /\ UNCHANGED <<alertThresholds, store, sweep, alerts, received, probe,
                   additionalReceivers, otherGroups>>

-----------------------------------------------------------------------------
(* CallbackStatsService: the list recentErrors.  probe holds the list, the   *)
(* clock the timestamps are taken from (one call, one instant) and, for the  *)
(* properties, every failure recorded since the last reset, oldest first.    *)

RecentError(timestamp, type) == [timestamp |-> timestamp, type |-> type]

\* the entry put at the end of the list, the list cut to its first 10
addRecentErrorAtEnd(recentErrors, type, timestamp) ==
    LET pushed == Append(recentErrors, RecentError(timestamp, type))
    IN  IF Len(pushed) > 10 THEN SubSeq(pushed, 1, 10) ELSE pushed

\* recentErrors.unshift({timestamp, type, error, details}); over 10 entries,
\* recentErrors = recentErrors.slice(0, 10)
addRecentError(recentErrors, type, timestamp) ==
    LET unshifted == <<RecentError(timestamp, type)>> \o recentErrors
    IN  IF Len(unshifted) > 10 THEN SubSeq(unshifted, 1, 10) ELSE unshifted

\* recordVerification(success, error) and recordMessage(success, messageType,
\* error, details): a failure is added to recentErrors, a success is counted
RecordCallback(type, success) ==
    /\ probe.clock < MaxRecorded
    /\ probe' = IF success
                THEN [probe EXCEPT !.clock = @ + 1]
                ELSE [probe EXCEPT
                         !.clock = @ + 1,
                         !.recentErrors = addRecentError(@, type, probe.clock + 1),
                         !.failures = Append(@, RecentError(probe.clock + 1, type))]
    /\ UNCHANGED <<now, alertThresholds, store, sweep, alerts, received,
                   additionalReceivers, otherGroups>>

recordVerification(success) == RecordCallback("verification", success)

recordCallbackMessage(success) == RecordCallback("message", success)

\* resetStats(): this.stats.recentErrors = []
resetStats ==
    /\ probe.clock < MaxRecorded
    /\ probe.recentErrors # <<>>
    /\ probe' = [probe EXCEPT !.clock = @ + 1, !.recentErrors = <<>>, !.failures = <<>>]
    /\ UNCHANGED <<now, alertThresholds, store, sweep, alerts, received,
                   additionalReceivers, otherGroups>>

-----------------------------------------------------------------------------
(* Time *)

Tick ==
    /\ now' = now + 1
    /\ UNCHANGED <<alertThresholds, store, sweep, alerts, received, probe,
                   additionalReceivers, otherGroups>>

-----------------------------------------------------------------------------
(* The threshold scan applied to chosen inputs *)

IdleProbe == [pc |-> "idle", minutesPassed |-> 0, alertLevel |-> 0]

ApplyScan ==
    /\ probe.pc = "ready"
    /\ probe' = [probe EXCEPT !.pc = "done",
                    !.alertLevel = ComputeAlertLevel(probe.minutesPassed, alertThresholds)]
    /\ UNCHANGED <<now, alertThresholds, store, sweep, alerts, received,
                   additionalReceivers, otherGroups>>

-----------------------------------------------------------------------------
(* Callback security layer: WeixinCallbackUtil.  A string is the sequence of *)
(* its UTF-16 code units, a buffer the sequence of its bytes.               *)

\* config.corpWeixin.token ("tk") and config.corpWeixin.corpId ("ww1")
token == <<116, 107>>
corpId == <<119, 119, 49>>

\* a < b in the order of Array.prototype.sort() without a comparator: code
\* unit by code unit, a proper prefix first
RECURSIVE StrLess(_, _, _)
StrLess(a, b, i) ==
    IF i > Len(a) THEN i <= Len(b)
    ELSE IF i > Len(b) THEN FALSE
    ELSE IF a[i] # b[i] THEN a[i] < b[i]
    ELSE StrLess(a, b, i + 1)

RECURSIVE InsertSorted(_, _)
InsertSorted(str, arr) ==
    IF arr = <<>> THEN <<str>>
    ELSE IF StrLess(str, arr[1], 1) THEN <<str>> \o arr
    ELSE <<arr[1]>> \o InsertSorted(str, Tail(arr))

\* arr.sort()
RECURSIVE sort(_)
sort(arr) == IF arr = <<>> THEN <<>> ELSE InsertSorted(arr[1], sort(Tail(arr)))

\* arr.join('')
RECURSIVE join(_)
join(arr) == IF arr = <<>> THEN <<>> ELSE arr[1] \o join(Tail(arr))

\* crypto.createHash('sha1').update(str).digest('hex'): the digest stands for
\* the string it was computed from (no two strings share a digest); the
\* leading 0 tells a digest from any other string
sha1Sum(str) == <<0>> \o str

\* verifySignature(signature, timestamp, nonce, echostr?): echostr is not read
verifySignature(signature, timestamp, nonce, echostr) ==
    sha1Sum(join(sort(<<token, timestamp, nonce>>))) = signature

\* the value of a hexadecimal digit, -1 for any other code unit
HexValue(c) ==
    IF c \in 48..57 THEN c - 48
    ELSE IF c \in 65..70 THEN c - 55
    ELSE IF c \in 97..102 THEN c - 87
    ELSE 0 - 1

\* decodeURIComponent(str) from position i: %XX becomes the code unit XX; a %
\* not followed by two hexadecimal digits is a URIError, and so is an escape
\* of 80 or above with no UTF-8 continuation (every such escape stands alone
\* here)
RECURSIVE DecodeFrom(_, _)
DecodeFrom(str, i) ==
    IF i > Len(str) THEN [ok |-> TRUE, text |-> <<>>]
    ELSE IF str[i] # 37
    THEN LET rest == DecodeFrom(str, i + 1)
         IN  [ok |-> rest.ok, text |-> <<str[i]>> \o rest.text]
    ELSE IF i + 2 > Len(str) \/ HexValue(str[i + 1]) < 0 \/ HexValue(str[i + 2]) < 0
             \/ HexValue(str[i + 1]) >= 8
    THEN [ok |-> FALSE, text |-> <<>>]
    ELSE LET rest == DecodeFrom(str, i + 3)
         IN  [ok |-> rest.ok,
              text |-> <<16 * HexValue(str[i + 1]) + HexValue(str[i + 2])>> \o rest.text]

decodeURIComponent(str) == DecodeFrom(str, 1)

\* a string | null result
Null == [ok |-> FALSE, text |-> <<>>]
Returned(str) == [ok |-> TRUE, text |-> str]

\* WeixinCallbackUtil.handleVerification: the decoded echostr, null, or the
\* URIError of decodeURIComponent thrown to the caller
UtilHandleVerification(signature, timestamp, nonce, echostr) ==
    LET decodedEchostr == decodeURIComponent(echostr)
    IN  IF ~decodedEchostr.ok THEN [threw |-> TRUE, result |-> Null]
        ELSE IF verifySignature(signature, timestamp, nonce, decodedEchostr.text)
        THEN [threw |-> FALSE, result |-> Returned(decodedEchostr.text)]
        ELSE [threw |-> FALSE, result |-> Null]

\* the cipher under the configured key (aes-256-cbc, iv = first 16 bytes of
\* the key) is a bijection on the buffers of whole blocks; msgEncrypt stands
\* for the buffer its base64 text encodes
AesCbcEncrypt(buffer) == [i \in 1..Len(buffer) |-> (buffer[i] + 1) % 256]
AesCbcDecrypt(buffer) == [i \in 1..Len(buffer) |-> (buffer[i] + 255) % 256]

\* decipher output read as 'utf8': a byte below 128 is one code unit, the
\* two bytes C2 A9 are the one code unit A9, any other byte is U+FFFD
RECURSIVE Utf8From(_, _)
Utf8From(buffer, i) ==
    IF i > Len(buffer) THEN <<>>
    ELSE IF buffer[i] < 128 THEN <<buffer[i]>> \o Utf8From(buffer, i + 1)
    ELSE IF buffer[i] = 194 /\ i < Len(buffer) /\ buffer[i + 1] = 169
    THEN <<169>> \o Utf8From(buffer, i + 2)
    ELSE <<65533>> \o Utf8From(buffer, i + 1)

Utf8(buffer) == Utf8From(buffer, 1)

\* str.slice(start) and str.slice(0, -n) of JavaScript, n >= 0
SliceFrom(str, start) == SubSeq(str, start + 1, Len(str))
SliceLast(str, n) == IF n = 0 \/ n >= Len(str) THEN str ELSE SubSeq(str, Len(str) - n + 1, Len(str))
SliceDropLast(str, n) == IF n = 0 \/ n >= Len(str) THEN <<>> ELSE SubSeq(str, 1, Len(str) - n)

\* decryptMessage after the signature check: decipher, strip the padding,
\* drop the 20 leading characters, compare and drop the trailing corpId
DecryptBody(msgEncrypt) ==
    IF Len(msgEncrypt) = 0 \/ Len(msgEncrypt) % 16 # 0 THEN Null
    ELSE LET decrypted == Utf8(AesCbcDecrypt(msgEncrypt))
             pad == decrypted[Len(decrypted)]
             unpadded == SliceDropLast(decrypted, pad)
             content == SliceFrom(unpadded, 20)
         IN  IF SliceLast(content, Len(corpId)) # corpId THEN Null
             ELSE Returned(SliceDropLast(content, Len(corpId)))

\* WeixinCallbackUtil.decryptMessage
decryptMessage(msgEncrypt, msgSignature, timestamp, nonce) ==
    IF sha1Sum(join(sort(<<token, timestamp, nonce, msgEncrypt>>))) # msgSignature
    THEN Null
    ELSE DecryptBody(msgEncrypt)

-----------------------------------------------------------------------------
(* Callback ingress: WeixinCallbackController behind the router of index.ts *)

\* res.status(status).send(body); body "echostr" is the text in echo
Response(status, body, echo) == [status |-> status, body |-> body, echo |-> echo]

\* WeixinCallbackController.handleVerification: the reply to a GET
VerificationResponse(request) ==
    IF \/ request.msg_signature = <<>>
       \/ request.timestamp = <<>>
       \/ request.nonce = <<>>
       \/ request.echostr = <<>>
    THEN Response(400, "Bad Request", <<>>)
    ELSE LET call == UtilHandleVerification(request.msg_signature, request.timestamp,
                                            request.nonce, request.echostr)
         IN  IF call.threw THEN Response(500, "Internal Server Error", <<>>)
             ELSE IF call.result.ok THEN Response(200, "echostr", call.result.text)
             ELSE Response(401, "verification failed", <<>>)

\* the message of an XML document, as xml2js parses it; a document is told
\* by its text: C, E, I, U, P, V, N below, and any other text does not parse
NoChat == "none"
TrackedChat == "tracked"
UnknownChat == "unknown"

Message(MsgType, FromUserName, ChatId, CreateTime) ==
    [MsgType |-> MsgType, FromUserName |-> FromUserName,
     ChatId |-> ChatId, CreateTime |-> CreateTime]

XmlDocuments ==
    (<<67>> :> Message("text", "wm_customer", TrackedChat, 0))
    @@ (<<69>> :> Message("text", "staff", TrackedChat, 0))
    @@ (<<73>> :> Message("image", "wxid_customer", TrackedChat, 0))
    @@ (<<85>> :> Message("text", "wm_customer", UnknownChat, 0))
    @@ (<<80>> :> Message("text", "wm_customer", NoChat, 0))
    @@ (<<86>> :> Message("event", "sys", NoChat, 0))
    @@ (<<78>> :> Message("none", "wm_customer", TrackedChat, 0))

\* WeixinCallbackUtil.parseXml: the parsed message, or the parser's error
parseXml(xml) ==
    IF xml \in DOMAIN XmlDocuments
    THEN [ok |-> TRUE, xml |-> XmlDocuments[xml]]
    ELSE [ok |-> FALSE, xml |-> Message("none", "", NoChat, 0)]

\* isEmployee(userId): !userId.includes('wm') && !userId.includes('wxid')
isEmployee(userId) == userId \notin {"wm_customer", "wxid_customer"}

\* processMessage -> processTextMessage / processMediaMessage ->
\* simulateNewMessage reaches updateGroupLastMessage: a group message of a
\* chat with a record, the groups API answering
Recorded(message, api) ==
    /\ message.MsgType \in {"text", "image", "voice", "video"}
    /\ message.ChatId = TrackedChat
    /\ api = "ok"

\* the record after processMessage; every error on the way (unknown chat,
\* groups API down) is caught and the record is as before
processMessage(group, message, api) ==
    IF Recorded(message, api)
    THEN updateGroupLastMessage(group,
             UpdateData(IMessage(IF isEmployee(message.FromUserName)
                                 THEN "employee" ELSE "customer",
                                 message.CreateTime)))
    ELSE group

\* handleMessage up to the call of processMessage: the message to process, or
\* the reason why nothing is processed
MessageContent(request) ==
    IF request.encrypt_type = "aes"
    THEN IF request.body.kind = "empty" THEN [outcome |-> "empty body"]
         ELSE IF request.body.Encrypt = <<>> THEN [outcome |-> "no Encrypt"]
         ELSE IF \/ request.msg_signature = <<>>
                 \/ request.timestamp = <<>>
                 \/ request.nonce = <<>>
         THEN [outcome |-> "missing parameters"]
         ELSE LET decryptedXml == decryptMessage(request.body.Encrypt, request.msg_signature,
                                                 request.timestamp, request.nonce)
              IN  IF ~decryptedXml.ok \/ decryptedXml.text = <<>>
                  THEN [outcome |-> "decryption failed"]
                  ELSE IF ~parseXml(decryptedXml.text).ok
                  THEN [outcome |-> "parse failed"]
                  ELSE [outcome |-> "message", message |-> parseXml(decryptedXml.text).xml]
    ELSE IF request.body.kind = "xml"
         THEN IF ~parseXml(request.body.document).ok
              THEN [outcome |-> "parse failed"]
              ELSE [outcome |-> "message", message |-> parseXml(request.body.document).xml]
         ELSE IF request.body.kind = "empty" \/ request.body.document = <<>>
         THEN [outcome |-> "empty content"]
         ELSE [outcome |-> "message", message |-> XmlDocuments[request.body.document]]

\* the reply to a POST with a condition other than success
MessageResponseRejecting(outcome) ==
    IF outcome = "message"
    THEN Response(200, "success", <<>>)
    ELSE Response(400, "Bad Request", <<>>)

\* handleMessage: res.send('success') on every path, the catch included
MessageResponse(outcome) == Response(200, "success", <<>>)

\* the plaintext the platform encrypts: 16 random bytes, the 4-byte
\* big-endian length of the body, the body, the corpId, the padding
UInt32BE(n) ==
    <<(n \div 16777216) % 256, (n \div 65536) % 256, (n \div 256) % 256, n % 256>>

Payload(msgLen, body, tenant, padLength, padByte) ==
    [i \in 1..16 |-> 114] \o UInt32BE(msgLen) \o body \o tenant
        \o [i \in 1..padLength |-> padByte]

\* the signature the platform sends with an encrypted message
MessageSignature(timestamp, nonce, msgEncrypt) ==
    sha1Sum(join(sort(<<token, timestamp, nonce, msgEncrypt>>)))

\* requests of the callback route
Ciphertexts ==
    {AesCbcEncrypt(Payload(Len(body), body, tenant, 8, 8)) :
        body \in {<<67>>, <<69>>, <<85>>, <<63>>}, tenant \in {corpId, <<119, 119, 50>>}}
        \cup {<<1, 2, 3>>}

Bodies ==
    {[kind |-> "empty", Encrypt |-> <<>>, document |-> <<>>]}
        \cup {[kind |-> kind, Encrypt |-> msgEncrypt, document |-> <<>>] :
                 kind \in {"xml", "object"}, msgEncrypt \in Ciphertexts}
        \cup {[kind |-> "xml", Encrypt |-> <<>>, document |-> document] :
                 document \in DOMAIN XmlDocuments \cup {<<63>>}}
        \cup {[kind |-> "object", Encrypt |-> <<>>, document |-> document] :
                 document \in DOMAIN XmlDocuments}

Request(method, msg_signature, timestamp, nonce, echostr, encrypt_type, body) ==
    [method |-> method, msg_signature |-> msg_signature, timestamp |-> timestamp,
     nonce |-> nonce, echostr |-> echostr, encrypt_type |-> encrypt_type, body |-> body]

PostRequests ==
    UNION {{Request("POST", msg_signature, timestamp, <<50>>, <<>>, encrypt_type, body) :
               msg_signature \in {<<>>, <<0, 120>>,
                                  sha1Sum(join(sort(<<token, timestamp, <<50>>>>))),
                                  MessageSignature(timestamp, <<50>>, body.Encrypt)},
               encrypt_type \in {"aes", "raw"}} :
           timestamp \in {<<>>, <<49>>}, body \in Bodies}

GetRequests ==
    UNION {{Request(method, msg_signature, timestamp, <<50>>, echostr, "aes",
                    [kind |-> "empty", Encrypt |-> <<>>, document |-> <<>>]) :
               msg_signature \in {<<>>, <<0, 120>>,
                                  sha1Sum(join(sort(<<token, timestamp, <<50>>>>))),
                                  sha1Sum(join(sort(<<token, timestamp, <<50>>, echostr>>)))},
               method \in {"GET", "PUT"}} :
           timestamp \in {<<>>, <<49>>},
           echostr \in {<<>>, <<97>>, <<37, 50, 53>>, <<37>>, <<97, 37, 52>>}}

\* a record with an alert pending: customer message, level 2
AlertedGroup ==
    [NewGroup EXCEPT !.lastMessage = IMessage("customer", 0),
                     !.lastCustomerMessage = IMessage("customer", 0),
                     !.needAlert = TRUE,
                     !.alertLevel = 2]

\* router.all('/'): GET
handleVerification ==
    /\ probe.pc = "ready"
    /\ probe.request.method = "GET"
    /\ probe' = [probe EXCEPT !.pc = "done",
                              !.response = VerificationResponse(probe.request),
                              !.responses = Append(@, VerificationResponse(probe.request))]
    /\ UNCHANGED <<now, alertThresholds, store, sweep, alerts, received,
                   additionalReceivers, otherGroups>>

\* router.all('/'): POST, up to the return of the awaited processMessage, or
\* to the res.send('success') and return of a request with no message to
\* process.  No call on the way from handleMessage to updateGroupLastMessage
\* creates a group: the chats with a record stay the same
handleMessage ==
    LET content == MessageContent(probe.request)
    IN  /\ probe.pc = "ready"
        /\ probe.request.method = "POST"
        /\ store' = IF content.outcome = "message"
                    THEN processMessage(store, content.message, probe.api)
                    ELSE store
        /\ received' = IF content.outcome = "message" /\ Recorded(content.message, probe.api)
                       THEN received + 1 ELSE received
        /\ probe' = IF content.outcome = "message"
                    THEN [probe EXCEPT !.pc = "processed"]
                    ELSE [probe EXCEPT !.pc = "done",
                                       !.response = MessageResponse(content.outcome),
                                       !.responses = Append(@, MessageResponse(content.outcome))]
        /\ UNCHANGED <<now, alertThresholds, sweep, alerts,
                       additionalReceivers, otherGroups>>

\* the message processed and no reply sent
sendNothing ==
    /\ probe.pc = "processed"
    /\ probe' = [probe EXCEPT !.pc = "done"]
    /\ UNCHANGED <<now, alertThresholds, store, sweep, alerts, received,
                   additionalReceivers, otherGroups>>

\* handleMessage after processMessage has returned: res.send('success')
sendSuccess ==
    /\ probe.pc = "processed"
    /\ probe' = [probe EXCEPT !.pc = "done",
                              !.response = MessageResponse("message"),
                              !.responses = Append(@, MessageResponse("message"))]
    /\ UNCHANGED <<now, alertThresholds, store, sweep, alerts, received,
                   additionalReceivers, otherGroups>>

\* router.all('/'): any other method
MethodNotAllowed ==
    /\ probe.pc = "ready"
    /\ probe.request.method \notin {"GET", "POST"}
    /\ probe' = [probe EXCEPT !.pc = "done",
                              !.response = Response(405, "Method Not Allowed", <<>>),
                              !.responses =
                                  Append(@, Response(405, "Method Not Allowed", <<>>))]
    /\ UNCHANGED <<now, alertThresholds, store, sweep, alerts, received,
                   additionalReceivers, otherGroups>>

\* decryptMessage applied to a payload the platform's signature comes with
ApplyDecrypt ==
    LET msgEncrypt == AesCbcEncrypt(Payload(probe.msgLen, probe.body, probe.tenant,
                                            probe.padLength, probe.padByte))
    IN  /\ probe.pc = "ready"
        /\ probe' = [probe EXCEPT !.pc = "done",
                        !.result = decryptMessage(msgEncrypt,
                                       MessageSignature(<<49>>, <<50>>, msgEncrypt),
                                       <<49>>, <<50>>)]
        /\ UNCHANGED <<now, alertThresholds, store, sweep, alerts, received,
                       additionalReceivers, otherGroups>>

\* the signature test of decryptMessage: calculatedSignature === msgSignature
MessageSignatureMatches(msgEncrypt, msgSignature, timestamp, nonce) ==
    MessageSignature(timestamp, nonce, msgEncrypt) = msgSignature

\* the orders in which three values can be passed
Orders == {order \in [1..3 -> 1..3] : \A i, j \in 1..3 : order[i] = order[j] => i = j}

\* both signature tests applied to the values as timestamp, nonce and content,
\* and to the same values passed in another order
ApplyVerify ==
    LET v == probe.values
        w == [i \in 1..3 |-> probe.values[probe.order[i]]]
    IN  /\ probe.pc = "ready"
        /\ probe' = [probe EXCEPT
              !.pc = "done",
              !.challenge = verifySignature(probe.signature, v[1], v[2], v[3]),
              !.challengeReordered = verifySignature(probe.signature, w[1], w[2], w[3]),
              !.message = MessageSignatureMatches(v[3], probe.signature, v[1], v[2]),
              !.messageReordered = MessageSignatureMatches(w[3], probe.signature, w[1], w[2])]
        /\ UNCHANGED <<now, alertThresholds, store, sweep, alerts, received,
                       additionalReceivers, otherGroups>>

-----------------------------------------------------------------------------
(* Specifications *)

InitMonitor ==
    /\ now = 0
    /\ store = NewGroup
    /\ sweep = [s \in Sweeps |-> IdleSweep]
    /\ alerts = [level \in 1..Len(alertThresholds) |-> 0]
    /\ received = 0
    /\ additionalReceivers = <<>>
    /\ otherGroups = 0

Messages(latest) ==
    {IMessage(fromType, createTime) :
        fromType \in {"employee", "customer"}, createTime \in 0..latest}

\* a sweep is inside checkGroupResponse for the conversation, or about to enter it
Evaluating(s) == sweep[s].pc \in {"check", "reset", "update", "send"}

SweepSteps(s) ==
    \/ checkGroupResponse(s)
    \/ ResetAlertSettings(s)
    \/ UpdateAlertSettings(s)
    \/ sendAlert(s)
    \/ checkAllGroupsResponse(s)

\* the service as deployed: both sweeps and the callback path, any interleaving
Init ==
    /\ alertThresholds = <<1, 2>>
    /\ InitMonitor
    /\ probe = IdleProbe

Next ==
    \/ now < MaxTime /\ Tick
    \/ \E message \in Messages(now) : simulateNewMessage(message)
    \/ \E s \in Sweeps : findAllGroups(s)
    \/ \E s \in Sweeps : SweepSteps(s)

Spec == Init /\ [][Next]_vars

\* sweeps one after the other: a sweep reads the groups only when no other is
\* evaluating the conversation, and messages arrive between the sweeps
NextSeq ==
    \/ now < MaxTime /\ Tick
    \/ \E message \in Messages(now) :
          /\ \A s \in Sweeps : sweep[s].pc = "idle"
          /\ simulateNewMessage(message)
    \/ \E s \in Sweeps :
          /\ \A o \in Sweeps : ~Evaluating(o)
          /\ findAllGroups(s)
    \/ \E s \in Sweeps : SweepSteps(s)

SpecSeq == Init /\ [][NextSeq]_vars

\* a customer message, answered by an employee later or never, and the
\* scheduled sweep run again and again
InitE2E ==
    /\ alertThresholds \in {<<10, 30, 60>>, <<1, 2, 3>>}
    /\ InitMonitor
    /\ probe = IdleProbe

NextE2E ==
    \/ now < Horizon /\ Tick
    \/ /\ sweep["scheduled"].pc = "idle"
       /\ \/ received = 0 /\ simulateNewMessage(IMessage("customer", now))
          \/ received = 1 /\ simulateNewMessage(IMessage("employee", now))
    \/ findAllGroups("scheduled")
    \/ SweepSteps("scheduled")

SpecE2E == InitE2E /\ [][NextE2E]_vars

\* the threshold scan alone, on every ascending table and elapsed time
InitPolicy ==
    /\ alertThresholds \in AscendingTables
    /\ InitMonitor
    /\ probe \in [pc : {"ready"}, minutesPassed : 0..MaxElapsed, alertLevel : {0}]

NextPolicy == ApplyScan

SpecPolicy == InitPolicy /\ [][NextPolicy]_vars

\* one evaluation after the other of a record as the groups API may serve it:
\* any mix of message fields and alert settings, at any minute
GroupRecords ==
    {group \in [lastMessage : {NoMessage, IMessage("employee", 0), IMessage("customer", 0)},
                lastEmployeeMessage : {NoMessage, IMessage("employee", 0)},
                lastCustomerMessage : {NoMessage, IMessage("customer", 0)},
                needAlert : BOOLEAN,
                alertLevel : 0..2] :
        /\ group.lastMessage \in {group.lastEmployeeMessage, group.lastCustomerMessage}
        /\ group.lastMessage = NoMessage =>
              (group.lastEmployeeMessage = NoMessage /\ group.lastCustomerMessage = NoMessage)}

InitEval ==
    /\ alertThresholds = <<1, 2>>
    /\ now \in 0..MaxTime
    /\ store \in GroupRecords
    /\ sweep = [s \in Sweeps |-> IdleSweep]
    /\ alerts = [level \in 1..Len(alertThresholds) |-> 0]
    /\ received = 0
    /\ additionalReceivers = <<>>
    /\ otherGroups = 0
    /\ probe = IdleProbe

NextEval ==
    \/ findAllGroups("scheduled")
    \/ SweepSteps("scheduled")

SpecEval == InitEval /\ [][NextEval]_vars

\* the scheduled job running minute after minute: one customer message, which
\* an employee may answer at any later moment.  The job fires every minute
\* and, the groups API and the message API being available, every call the
\* sweep awaits returns: the clock, the start of a sweep and each step of a
\* sweep are weakly fair.
NextLive ==
    \/ now < LiveHorizon /\ Tick
    \/ received = 0 /\ simulateNewMessage(IMessage("customer", now))
    \/ received = 1 /\ simulateNewMessage(IMessage("employee", now))
    \/ findAllGroups("scheduled")
    \/ SweepSteps("scheduled")

SpecLive ==
    /\ Init
    /\ [][NextLive]_vars
    /\ WF_vars(now < LiveHorizon /\ Tick)
    /\ WF_vars(findAllGroups("scheduled"))
    /\ WF_vars(SweepSteps("scheduled"))

\* one request to the callback route, on a new record or on one with an
\* alert pending, the groups API up or down; records are the chats the groups
\* API holds a record of, responses the replies sent so far
InitIngress ==
    /\ alertThresholds = <<1, 2>>
    /\ now = 0
    /\ store \in {NewGroup, AlertedGroup}
    /\ sweep = [s \in Sweeps |-> IdleSweep]
    /\ alerts = [level \in 1..Len(alertThresholds) |-> 0]
    /\ received = 0
    /\ additionalReceivers = <<>>
    /\ otherGroups = 0
    /\ probe \in [pc : {"ready"}, request : PostRequests \cup GetRequests,
                  api : {"ok", "down"}, before : {store},
                  records : {{TrackedChat}},
                  responses : {<<>>},
                  response : {Response(0, "", <<>>)}]

NextIngress ==
    \/ handleVerification
    \/ handleMessage
    \/ sendSuccess
    \/ MethodNotAllowed

SpecIngress == InitIngress /\ [][NextIngress]_vars

\* decryptMessage alone, on payloads of every shape
PadLengths(n) == {padLength \in 1..32 : (n + padLength) % 16 = 0}

InitDecrypt ==
    /\ alertThresholds = <<1, 2>>
    /\ InitMonitor
    /\ probe \in {p \in [pc : {"ready"},
                         msgLen : 0..MaxBody,
                         body : {<<67>>, <<67, 119>>, <<194, 169>>},
                         tenant : {corpId, <<119, 119, 50>>, <<120>> \o corpId, <<119, 49>>},
                         padLength : 1..32,
                         padByte : 0..33,
                         result : {Null}] :
                    /\ p.padLength \in PadLengths(20 + Len(p.body) + Len(p.tenant))
                    /\ p.padByte \in {p.padLength, 0, 33}}

NextDecrypt == ApplyDecrypt

SpecDecrypt == InitDecrypt /\ [][NextDecrypt]_vars

\* the signature tests alone, on values passed in every order
SigningValues == {<<49>>, <<50>>, <<49, 50>>}

InitSign ==
    /\ alertThresholds = <<1, 2>>
    /\ InitMonitor
    /\ probe \in UNION {{[pc |-> "ready", values |-> values, order |-> order,
                           signature |-> signature,
                           challenge |-> FALSE, challengeReordered |-> FALSE,
                           message |-> FALSE, messageReordered |-> FALSE] :
                             order \in Orders,
                             signature \in
                                 {sha1Sum(join(sort(<<token, values[1], values[2]>>))),
                                  MessageSignature(values[1], values[2], values[3]),
                                  <<0, 120>>}} :
                          values \in [1..3 -> SigningValues]}

NextSign == ApplyVerify

SpecSign == InitSign /\ [][NextSign]_vars

\* the scheduled job and the callback path with the groups API and the
\* message API failing at any call: the conversation is followed by another group in the list of findAllGroups,
\* and an additional receiver is configured next to the owner
FaultySteps(s) ==
    \/ findAllGroups(s)
    \/ findAllGroupsFails(s)
    \/ catchSweepError(s)
    \/ SweepSteps(s)
    \/ updateGroupAlertSettingsFails(s)
    \/ catchGroupError(s)
    \/ sendAlertFails(s)
    \/ \E sendResult \in BOOLEAN : sendAdditional(s, sendResult)
    \/ checkNextGroup(s)

InitFaulty ==
    /\ alertThresholds = <<1, 2>>
    /\ now = 0
    /\ store = NewGroup
    /\ sweep = [s \in Sweeps |-> IdleSweep]
    /\ alerts = [level \in 1..Len(alertThresholds) |-> 0]
    /\ received = 0
    /\ probe = IdleProbe
    /\ additionalReceivers = <<Owner, "extra">>
    /\ otherGroups = 1

NextFaulty ==
    \/ now < MaxTime /\ Tick
    \/ \E message \in Messages(now) : simulateNewMessage(message)
    \/ FaultySteps("scheduled")

SpecFaulty == InitFaulty /\ [][NextFaulty]_vars

\* the same, the scheduled job going on: it fires every minute, and every
\* call its sweep awaits returns or throws
SpecFaultyLive ==
    /\ InitFaulty
    /\ [][NextFaulty]_vars
    /\ WF_vars(FaultySteps("scheduled"))

\* the lists ADDITIONAL_RECEIVERS can give: split(','), trim, empty ids
\* filtered out; an id may be the owner's and may occur more than once
ReceiverIds == {Owner, "extra", "other"}

\* the sweep under every such list
InitReceivers ==
    /\ alertThresholds = <<1, 2>>
    /\ now = 0
    /\ store = NewGroup
    /\ sweep = [s \in Sweeps |-> IdleSweep]
    /\ alerts = [level \in 1..Len(alertThresholds) |-> 0]
    /\ received = 0
    /\ probe = IdleProbe
    /\ additionalReceivers \in UNION {[1..n -> ReceiverIds] : n \in 0..MaxReceivers}
    /\ otherGroups = 1

SpecReceivers == InitReceivers /\ [][NextFaulty]_vars

\* one syncGroupDetail of a tracked conversation: any record, any detail the
\* message platform may return for the chat
GroupDetails ==
    [name : {"", " ", "Sales", " Sales "},
     owner : {"", Owner, "other"},
     member_list :
        {<<>>,
         <<[userid |-> "u1", type |-> 1, name |-> "Ann"]>>,
         <<[userid |-> "", type |-> 2, name |-> ""], [userid |-> "u1", type |-> 1, name |-> "Ann"]>>}]

StoredDetails ==
    {[name |-> "Sales", owner |-> Owner, members |-> <<>>],
     [name |-> "Old", owner |-> "other", members |-> Members(<<[userid |-> "u1", type |-> 1, name |-> "Ann"]>>)]}

InitSync ==
    /\ alertThresholds = <<1, 2>>
    /\ now = 0
    /\ store \in GroupRecords
    /\ sweep = [s \in Sweeps |-> IdleSweep]
    /\ alerts = [level \in 1..Len(alertThresholds) |-> 0]
    /\ received = 0
    /\ additionalReceivers = <<>>
    /\ otherGroups = 0
    /\ probe \in {[pc |-> "ready", groupDetail |-> groupDetail, detail |-> detail,
                   before |-> Merge(store, detail),
                   request |-> UpdateGroupRequest(groupDetail),
                   returned |-> "pending", group |-> Merge(store, detail)] :
                     groupDetail \in GroupDetails, detail \in StoredDetails}

NextSync ==
    \/ getGroupChatDetail
    \/ getGroupChatDetailFails
    \/ findOrCreateGroup
    \/ findOrCreateGroupFails
    \/ syncGroupDetail
    \/ updateGroupFails

SpecSync == InitSync /\ [][NextSync]_vars

\* one getAllChatRecordsFromGoService(startSeq, batchSize) on any archive
InitArchive ==
    /\ alertThresholds = <<1, 2>>
    /\ now = 0
    /\ store = NewGroup
    /\ sweep = [s \in Sweeps |-> IdleSweep]
    /\ alerts = [level \in 1..Len(alertThresholds) |-> 0]
    /\ received = 0
    /\ additionalReceivers = <<>>
    /\ otherGroups = 0
    /\ probe \in {[pc |-> "paging", archive |-> archive, startSeq |-> startSeq,
                   batchSize |-> batchSize, currentSeq |-> startSeq,
                   allGroupRecords |-> <<>>] :
                     archive \in UNION {[1..n -> {"group", "single"}] : n \in 0..MaxArchive}, startSeq \in 0..1, batchSize \in 1..MaxBatch}

NextArchive ==
    \/ getAllChatRecordsFromGoService
    \/ getChatRecordsFromGoServiceFails

SpecArchive == InitArchive /\ [][NextArchive]_vars

\* initDatabase() with any maxRetries up to the default
InitConnect ==
    /\ alertThresholds = <<1, 2>>
    /\ now = 0
    /\ store = NewGroup
    /\ sweep = [s \in Sweeps |-> IdleSweep]
    /\ alerts = [level \in 1..Len(alertThresholds) |-> 0]
    /\ received = 0
    /\ additionalReceivers = <<>>
    /\ otherGroups = 0
    /\ probe \in [pc : {"authenticate"}, retryCount : {0}, maxRetries : 0..MaxRetries,
                  tries : {0}, attempts : {0}, connections : {0}, result : {FALSE}]

NextConnect ==
    \/ authenticateRetries
    \/ authenticate
    \/ authenticateFails
    \/ initConnection

\* authenticate settles (the pool gives up acquiring after 60 s) and the
\* timer of the delay fires
SpecConnect ==
    /\ InitConnect
    /\ [][NextConnect]_vars
    /\ WF_vars(NextConnect)

\* the service as constructed (accessToken '', tokenExpireTime 0), called
\* again and again while the clock runs; a token is valid for less than the
\* margin of 300 s or for more
ExpiresIn == {200, 400, 700}

InitToken ==
    /\ alertThresholds = <<1, 2>>
    /\ now = 100
    /\ store = NewGroup
    /\ sweep = [s \in Sweeps |-> IdleSweep]
    /\ alerts = [level \in 1..Len(alertThresholds) |-> 0]
    /\ received = 0
    /\ additionalReceivers = <<>>
    /\ otherGroups = 0
    /\ probe = [accessToken |-> 0, tokenExpireTime |-> 0, issued |-> 0,
                call |-> [c \in Callers |-> IdleCall]]

NextToken ==
    \/ ClockTick
    \/ \E c \in Callers : getAccessToken(c)
    \/ \E c \in Callers : \E expires_in \in ExpiresIn : gettoken(c, expires_in)
    \/ \E c \in Callers : gettokenFails(c)
    \/ \E c \in Callers : nextCall(c)

SpecToken == InitToken /\ [][NextToken]_vars

\* the statistics service from its construction, under any calls
InitStats ==
    /\ alertThresholds = <<1, 2>>
    /\ now = 0
    /\ store = NewGroup
    /\ sweep = [s \in Sweeps |-> IdleSweep]
    /\ alerts = [level \in 1..Len(alertThresholds) |-> 0]
    /\ received = 0
    /\ additionalReceivers = <<>>
    /\ otherGroups = 0
    /\ probe = [clock |-> 0, recentErrors |-> <<>>, failures |-> <<>>]

NextStats ==
    \/ \E success \in BOOLEAN : recordVerification(success)
    \/ \E success \in BOOLEAN : recordCallbackMessage(success)
    \/ resetStats

SpecStats == InitStats /\ [][NextStats]_vars

\* the steps of a sweep that end by themselves: the calls to the groups API,
\* which return or fail within the timeout of its axios client (10 s), and
\* the code between the awaits; an additional receiver that is skipped takes
\* no call
TimedSteps(s) ==
    \/ findAllGroups(s)
    \/ findAllGroupsFails(s)
    \/ catchSweepError(s)
    \/ SweepSteps(s) /\ sweep[s].pc # "send"
    \/ updateGroupAlertSettingsFails(s)
    \/ catchGroupError(s)
    \/ checkNextGroup(s)
    \/ /\ sweep[s].pc = "receivers"
       /\ ~Addressed(additionalReceivers[sweep[s].receiver])
       /\ sendAdditional(s, TRUE)

\* the sweep with the timeouts the code sets: the sends go through axios.get
\* and axios.post of WeixinService, which set none, so a send returns, fails
\* or is awaited for ever
SpecTimeouts ==
    /\ InitFaulty
    /\ [][NextFaulty]_vars
    /\ WF_vars(TimedSteps("scheduled"))

\* one message recorded through the callback path on a record of any kind
InitRecord ==
    /\ alertThresholds = <<1, 2>>
    /\ now = MaxTime
    /\ store \in GroupRecords
    /\ sweep = [s \in Sweeps |-> IdleSweep]
    /\ alerts = [level \in 1..Len(alertThresholds) |-> 0]
    /\ received = 0
    /\ additionalReceivers = <<>>
    /\ otherGroups = 0
    /\ probe \in [pc : {"ready"}, message : Messages(MaxTime),
                  server : {"fields", "documented"}, before : {store}]

NextRecord == recordMessage

SpecRecord == InitRecord /\ [][NextRecord]_vars

-----------------------------------------------------------------------------
(* Properties *)

Max(S) == CHOOSE x \in S : \A y \in S : y <= x

\* 0-based indices of the thresholds the elapsed time has reached
Reached(elapsed, thresholds) ==
    {i \in 0..(Len(thresholds) - 1) : elapsed >= thresholds[i + 1]}

NextLevel(elapsed, thresholds) ==
    IF elapsed < thresholds[1] THEN 0 ELSE 1 + Max(Reached(elapsed, thresholds))

\* C1: on every ascending threshold table and every elapsed time >= 0 the
\* scan of checkGroupResponse returns 1 + the largest index i with
\* elapsed >= thresholds[i], and 0 when elapsed < thresholds[0]; on
\* [10,30,60,120,180] it returns 0 for 5 minutes, 2 for 45 and 5 for 200.
C1_LevelIsLargestThresholdReached ==
    probe.pc = "done" =>
        /\ probe.alertLevel = NextLevel(probe.minutesPassed, alertThresholds)
        /\ alertThresholds = DefaultThresholds =>
              /\ probe.minutesPassed = 5 => probe.alertLevel = 0
              /\ probe.minutesPassed = 45 => probe.alertLevel = 2
              /\ probe.minutesPassed = 200 => probe.alertLevel = 5

C1_Witness ==
    /\ probe.pc = "done"
    /\ alertThresholds = DefaultThresholds
    /\ probe.minutesPassed = 45
    /\ probe.alertLevel = 2

\* the last message is an employee's, sent at or after the last customer message
StaffRepliedLast(group) ==
    /\ group.lastCustomerMessage # NoMessage
    /\ group.lastMessage.fromType = "employee"
    /\ group.lastMessage.createTime >= group.lastCustomerMessage.createTime

\* C2: whatever alertLevel the record holds, a sweep that evaluates a record
\* whose last message is a staff message sent at or after the last customer
\* message computes level 0, never reaches the update or the alert, and its
\* write leaves the record with alertLevel = 0 and needAlert = false.
C2_StaffReplyResets ==
    /\ [](\A s \in Sweeps : StaffRepliedLast(sweep[s].group) =>
            /\ sweep[s].pc \notin {"update", "send"}
            /\ sweep[s].alertLevel = 0
            /\ ~sweep[s].needAlert)
    /\ [][\A s \in Sweeps : StaffRepliedLast(sweep[s].group) =>
            /\ (sweep[s].pc = "check" /\ sweep'[s].pc # "check") => sweep'[s].pc = "reset"
            /\ (sweep[s].pc = "reset" /\ sweep'[s].pc # "reset") =>
                  /\ sweep'[s].pc = "finished"
                  /\ store'.alertLevel = 0
                  /\ ~store'.needAlert
                  /\ alerts' = alerts]_vars

C2_Witness ==
    \E s \in Sweeps :
        /\ sweep[s].pc = "finished"
        /\ StaffRepliedLast(sweep[s].group)
        /\ sweep[s].group.alertLevel = 2
        /\ sweep[s].group.needAlert
        /\ store.alertLevel = 0
        /\ ~store.needAlert

\* the evaluation computed a level above 0 that differs from the level of the
\* record it read
LevelChangedToAlert(s) ==
    /\ sweep[s].alertLevel > 0
    /\ sweep[s].alertLevel # sweep[s].group.alertLevel

\* C3: a sweep's evaluation of the conversation sends an alert exactly when the
\* level it computed is above 0 and differs from the alertLevel of the record
\* it read; an evaluation that computes the level already stored sends nothing.
C3_DispatchOnLevelChangeOnly ==
    /\ [](\A s \in Sweeps : sweep[s].pc = "send" => LevelChangedToAlert(s))
    /\ [][/\ \A s \in Sweeps :
               (sweep[s].pc \in {"check", "reset", "update"} /\ sweep'[s].pc = "finished")
                   => ~LevelChangedToAlert(s)'
          /\ alerts' # alerts =>
               \E s \in Sweeps :
                   /\ sweep[s].pc = "send"
                   /\ sweep'[s].pc = "finished"
                   /\ alerts'[sweep[s].alertLevel] = alerts[sweep[s].alertLevel] + 1]_vars

C3_Witness ==
    \E s, o \in Sweeps :
        /\ sweep[s].pc = "finished"
        /\ sweep[s].alertLevel = 2
        /\ sweep[s].group.alertLevel = 1
        /\ alerts[2] = 1
        /\ sweep[o].pc = "finished"
        /\ sweep[o].alertLevel = 2
        /\ sweep[o].group.alertLevel = 2
        /\ sweep[o].minutesPassed = sweep[s].minutesPassed

\* C4: with one customer message at T0 and no staff reply, sweeps run one after
\* the other send one alert for each level the record is moved to and none
\* otherwise: no level is alerted twice, no level above the stored one has been
\* alerted, and once the sweep that stored a level has sent its alert that
\* level has been alerted once.  With thresholds [10,30,60] the sweep at
\* T0+31 computes and stores level 2, and a sweep at T0+35 that reads level 2
\* sends nothing.
C4_OneAlertPerTransition ==
    store.lastEmployeeMessage = NoMessage =>
        /\ \A level \in DOMAIN alerts :
              /\ alerts[level] <= 1
              /\ level > store.alertLevel => alerts[level] = 0
              /\ (level = store.alertLevel /\ \A s \in Sweeps : sweep[s].pc # "send")
                    => alerts[level] = 1
        /\ alertThresholds = <<10, 30, 60>> =>
              \A s \in Sweeps :
                 /\ sweep[s].minutesPassed = 31 =>
                       /\ sweep[s].alertLevel = 2
                       /\ sweep[s].pc \in {"send", "finished"} => store.alertLevel = 2
                 /\ (sweep[s].minutesPassed = 35 /\ sweep[s].group.alertLevel = 2) =>
                       /\ sweep[s].pc = "finished"
                       /\ alerts[2] = 1

C4_Witness ==
    /\ alertThresholds = <<10, 30, 60>>
    /\ store.lastEmployeeMessage = NoMessage
    /\ sweep["scheduled"].pc = "finished"
    /\ sweep["scheduled"].minutesPassed = 35
    /\ sweep["scheduled"].group.alertLevel = 2
    /\ store.alertLevel = 2
    /\ alerts[1] = 0
    /\ alerts[2] = 1

\* the elapsed time an evaluation of the record would work with now
ElapsedNow(group) ==
    IF group.lastCustomerMessage = NoMessage \/ LastMessageFromEmployee(group)
    THEN 0
    ELSE now - group.lastCustomerMessage.createTime

\* C5: when a sweep evaluates the conversation right after another sweep has
\* finished with it (no message recorded in between) and at the same elapsed
\* time, it computes the same level and does not reach the update or the alert.
C5_SecondEvaluationIdempotent ==
    [][\A s, o \in Sweeps :
          (/\ s # o
           /\ sweep[o].pc = "finished"
           /\ sweep[s].pc = "check"
           /\ sweep'[s].pc # "check"
           /\ sweep[o].minutesPassed = ElapsedNow(sweep[s].group))
          => /\ sweep'[s].alertLevel = sweep[o].alertLevel
             /\ sweep'[s].pc \notin {"update", "send"}]_vars

C5_Witness ==
    \E s, o \in Sweeps :
        /\ s # o
        /\ sweep[o].pc = "finished"
        /\ sweep[o].alertLevel = 2
        /\ sweep[o].group.alertLevel = 1
        /\ sweep[s].pc = "finished"
        /\ sweep[s].alertLevel = 2
        /\ sweep[s].group.alertLevel = 2
        /\ sweep[s].minutesPassed = sweep[o].minutesPassed

\* C6: once the callback's staff reply and every sweep have finished, the record
\* of a conversation whose last message is the staff reply has alertLevel = 0
\* and needAlert = false, also when a sweep had read it before the reply.
C6_ResetNotOverwritten ==
    (/\ \A s \in Sweeps : ~Evaluating(s)
     /\ StaffRepliedLast(store))
    => (store.alertLevel = 0 /\ ~store.needAlert)

\* C7: no sweep sends an alert for a conversation while the record shows a
\* staff reply to its latest customer message.
C7_NoAlertAfterStaffReply ==
    [][\A s \in Sweeps :
          (sweep[s].pc = "send" /\ sweep'[s].pc = "finished") => ~StaffRepliedLast(store)]_vars

\* a sweep is inside checkGroupResponse, waiting for a call it awaits
Awaiting(s) == sweep[s].pc \in {"reset", "update", "send"}

\* C8: two sweeps are never inside the evaluation of the conversation at the
\* same time, and no two sweeps send the alert for the same level transition.
C8_SweepsNeverOverlap ==
    \A s, o \in Sweeps : s # o =>
        /\ ~(Awaiting(s) /\ Awaiting(o))
        /\ ~(/\ sweep[s].pc = "send"
             /\ sweep[o].pc = "send"
             /\ sweep[s].alertLevel = sweep[o].alertLevel
             /\ sweep[s].group = sweep[o].group)

\* C9 as stated: while no staff message has been recorded, the stored
\* alertLevel never decreases.
C9_NeverDecreasesInStreak ==
    [][store'.lastEmployeeMessage = NoMessage => store'.alertLevel >= store.alertLevel]_vars

\* C9 amended: from one sweep to the next, with the sweeps not overlapping and
\* no message recorded between them, the stored alertLevel never decreases.
C9_NeverDecreasesBetweenSweeps ==
    [][\A s, o \in Sweeps :
          (/\ s # o
           /\ sweep[o].pc = "finished"
           /\ Awaiting(s))
          => store'.alertLevel >= store.alertLevel]_vars

C9_Witness ==
    \E s, o \in Sweeps :
        /\ s # o
        /\ sweep[o].pc = "finished"
        /\ sweep[o].alertLevel = 1
        /\ sweep[s].pc = "finished"
        /\ sweep[s].group.alertLevel = 1
        /\ sweep[s].alertLevel = 2
        /\ sweep[s].group.lastCustomerMessage = sweep[o].group.lastCustomerMessage
        /\ store.alertLevel = 2

\* the employee's last message is not older than the customer's last message
RepliedByTime(group) ==
    /\ group.lastEmployeeMessage # NoMessage
    /\ group.lastCustomerMessage # NoMessage
    /\ group.lastEmployeeMessage.createTime >= group.lastCustomerMessage.createTime

\* C10: whatever order the messages arrived in, a sweep that evaluates a record
\* whose lastEmployeeMessage.createTime is at or after its
\* lastCustomerMessage.createTime sends no alert and leaves alertLevel = 0.
C10_ReplyByTimeMeansNoAlert ==
    \A s \in Sweeps : RepliedByTime(sweep[s].group) =>
        /\ sweep[s].pc # "send"
        /\ sweep[s].pc = "finished" => store.alertLevel = 0

\* C11: in every reachable state of the record, after any sequence of callback
\* messages and sweep evaluations in any interleaving, needAlert is true
\* exactly when alertLevel > 0.
C11_NeedAlertIffLevelPositive == store.needAlert <=> store.alertLevel > 0

C11_Witness ==
    /\ received = MaxMessages
    /\ store.lastEmployeeMessage # NoMessage
    /\ store.lastCustomerMessage # NoMessage
    /\ store.needAlert
    /\ store.alertLevel = 2
    /\ \E s \in Sweeps : sweep[s].pc = "finished" /\ sweep[s].alertLevel = 2

UnansweredForFirstThreshold ==
    /\ store.lastCustomerMessage # NoMessage
    /\ store.lastEmployeeMessage = NoMessage
    /\ now - store.lastCustomerMessage.createTime >= alertThresholds[1]

Alerted == \E level \in DOMAIN alerts : alerts[level] > 0

Answered(method) == probe.pc = "done" /\ probe.request.method = method

\* C14: every POST to the callback route is answered with HTTP 200 and the
\* body 'success', whatever happened inside: empty body, no Encrypt field,
\* missing signature parameters, failed signature check or decryption,
\* unparsable XML, a chat with no record, the groups API down.
C14_PostAlwaysAcknowledged ==
    Answered("POST") => probe.response = Response(200, "success", <<>>)

C14_Witness ==
    /\ Answered("POST")
    /\ probe.api = "down"
    /\ MessageContent(probe.request).outcome = "message"
    /\ MessageContent(probe.request).message.ChatId = TrackedChat
    /\ probe.request.encrypt_type = "aes"
    /\ store = probe.before
    /\ probe.response = Response(200, "success", <<>>)

\* the signature of the request is the digest of the sorted concatenation of
\* the token, the timestamp and the nonce, with or without the Encrypt field
SignatureVerifies(request) ==
    \/ request.msg_signature = sha1Sum(join(sort(<<token, request.timestamp, request.nonce>>)))
    \/ request.msg_signature =
          MessageSignature(request.timestamp, request.nonce, request.body.Encrypt)

\* C15: a POST whose signature does not verify leaves the record as it was,
\* in encrypted mode and in plaintext mode alike.
C15_UnsignedNeverChangesState ==
    (Answered("POST") /\ ~SignatureVerifies(probe.request)) => store = probe.before

\* the four parameters of the challenge are present
IsChallenge(request) ==
    /\ request.msg_signature # <<>>
    /\ request.timestamp # <<>>
    /\ request.nonce # <<>>
    /\ request.echostr # <<>>

\* C16: a GET challenge is answered with HTTP 200 and the URL-decoded echostr
\* when the signature check of the handler passes, and with HTTP 401 when it
\* does not.
C16_ChallengeReply ==
    (Answered("GET") /\ IsChallenge(probe.request)) =>
        IF verifySignature(probe.request.msg_signature, probe.request.timestamp,
                           probe.request.nonce, probe.request.echostr)
        THEN /\ probe.response.status = 200
             /\ probe.response.body = "echostr"
             /\ probe.response.echo = decodeURIComponent(probe.request.echostr).text
        ELSE probe.response.status = 401

\* C17: a challenge is accepted only if its signature is the digest of the
\* sorted concatenation of the token, the timestamp, the nonce and the
\* challenge content.
C17_ChallengeSignatureCoversContent ==
    (Answered("GET") /\ probe.response.status = 200) =>
        probe.request.msg_signature =
            sha1Sum(join(sort(<<token, probe.request.timestamp, probe.request.nonce,
                                decodeURIComponent(probe.request.echostr).text>>)))

\* the payload is laid out as the platform lays it out: the length field is
\* the length of the body and the padding bytes hold their own number
WellFormed == probe.msgLen = Len(probe.body) /\ probe.padByte = probe.padLength

\* the plaintext without the pad bytes its last byte announces
UnpaddedPlaintext ==
    LET plaintext == Payload(probe.msgLen, probe.body, probe.tenant,
                             probe.padLength, probe.padByte)
    IN  SubSeq(plaintext, 1, Len(plaintext) - probe.padByte)

\* C18: on a well-padded, well-structured payload whose tenant identifier
\* (the bytes after the body) differs from the configured corpId,
\* decryptMessage returns null.
C18_TenantMismatchRejected ==
    (probe.pc = "done" /\ WellFormed /\ probe.tenant # corpId) => ~probe.result.ok

\* C19: on a payload whose last plaintext byte is 0 or greater than 16,
\* decryptMessage returns null and no plaintext.
C19_PadOutOfRangeRejected ==
    (probe.pc = "done" /\ probe.padByte \notin 1..16) => ~probe.result.ok

\* C20: the body decryptMessage returns is the N bytes at offsets [20, 20+N)
\* of the unpadded plaintext, N being the length stored at offsets [16, 20),
\* and the bytes from offset 20+N to the end are the tenant identifier.
C20_BodyIsLengthDelimited ==
    (probe.pc = "done" /\ probe.result.ok) =>
        /\ probe.result.text = Utf8(SubSeq(UnpaddedPlaintext, 21, 20 + probe.msgLen))
        /\ Utf8(SubSeq(UnpaddedPlaintext, 21 + probe.msgLen, Len(UnpaddedPlaintext))) = corpId

\* C21: for a fixed signature, each signature test gives the same answer
\* whatever the order in which the timestamp, the nonce and the content are
\* passed to it.
C21_SignatureOrderIndependent ==
    probe.pc = "done" =>
        /\ probe.challenge = probe.challengeReordered
        /\ probe.message = probe.messageReordered

\* the part of C21 that is the test of decryptMessage
C21_MessageSignatureOrderIndependent ==
    probe.pc = "done" => probe.message = probe.messageReordered

C21_MessageWitness ==
    /\ probe.pc = "done"
    /\ probe.message
    /\ probe.messageReordered
    /\ probe.values[1] # probe.values[2]
    /\ probe.values[2] # probe.values[3]
    /\ probe.order = <<3, 1, 2>>

\* the sweep has met an error: findAllGroups threw, the write of the
\* conversation threw, or a send attempt failed
Failed(s) ==
    \/ sweep[s].pc \in {"thrown", "caught"}
    \/ \E i \in DOMAIN sweep[s].attempts : ~sweep[s].attempts[i].sendResult

\* C22: after any error in a sweep of the scheduled job (failed read of the
\* groups, failed write, failed send) the job comes to its end, and the job
\* that has ended starts a sweep again.
C22_ErrorsNeverStopTheSweep ==
    /\ Failed("scheduled") ~> sweep["scheduled"].pc = "idle"
    /\ sweep["scheduled"].pc = "idle" ~> sweep["scheduled"].pc # "idle"

C22_Witness ==
    /\ sweep["scheduled"].pc = "check"
    /\ sweep["scheduled"].group.alertLevel = 1
    /\ sweep["scheduled"].group.lastEmployeeMessage = NoMessage
    /\ alerts[1] = 0

\* C23: a write of the sweep that fails leaves the record as it was and ends
\* in the catch of checkGroupResponse, which returns to the loop; the sweep
\* ends only after the groups that follow have been evaluated; and the next
\* sweep starts from the record as stored.
C23_WriteFailureIsLocal ==
    [][LET s == "scheduled"
       IN  /\ (sweep[s].pc \in {"reset", "update"} /\ sweep'[s].pc \notin {"reset", "update"})
                 => /\ sweep'[s].pc \in {"caught", "send", "finished"}
                    /\ sweep'[s].pc = "caught" => store' = store
           /\ (sweep[s].pc = "caught" /\ sweep'[s].pc # "caught")
                 => /\ sweep'[s].pc = "finished"
                    /\ store' = store
           /\ (sweep[s].pc \notin {"idle", "thrown"} /\ sweep'[s].pc = "idle")
                 => sweep[s].evaluated = otherGroups
           /\ (sweep[s].pc = "idle" /\ sweep'[s].pc = "check")
                 => sweep'[s].group = store]_vars

C23_Witness ==
    /\ sweep["scheduled"].pc = "finished"
    /\ sweep["scheduled"].evaluated = otherGroups
    /\ otherGroups > 0
    /\ sweep["scheduled"].needAlert
    /\ sweep["scheduled"].alertLevel # sweep["scheduled"].group.alertLevel
    /\ sweep["scheduled"].attempts = <<>>
    /\ store = sweep["scheduled"].group

\* the receivers sendAlert has tried so far
Tried(s) == [i \in DOMAIN sweep[s].attempts |-> sweep[s].attempts[i].receiver]

\* the receivers one sendAlert call is to try: the owner, then the additional
\* receivers that are not empty and not the owner
Receivers == <<Owner>> \o SelectSeq(additionalReceivers, Addressed)

\* sendAlert has been entered by the sweep
Sending(s) ==
    \/ sweep[s].pc \in {"send", "receivers"}
    \/ sweep[s].pc = "finished" /\ sweep[s].attempts # <<>>

\* C24: a send that fails changes nothing in the record and sendAlert goes
\* on: every send to the owner, failed or not, is followed by the additional
\* receivers, and sendAlert returns with the owner and every additional
\* receiver other than the owner tried once; the sweep ends only after the
\* groups that follow; and the level written before the send is the stored
\* one when sendAlert is entered and stays so all through it, unless a staff
\* message is recorded meanwhile.
C24_SendFailureNotFatal ==
    /\ [](LET s == "scheduled"
          IN  (sweep[s].pc = "finished" /\ sweep[s].attempts # <<>>)
                 => Tried(s) = Receivers)
    /\ [][LET s == "scheduled"
          IN  /\ (sweep[s].pc # "send" /\ sweep'[s].pc = "send")
                    => store'.alertLevel = sweep'[s].alertLevel
              /\ (Sending(s) /\ store'.alertLevel # store.alertLevel)
                    => /\ received' = received + 1
                       /\ LastMessageFromEmployee(store')
                       /\ store'.alertLevel = 0
              /\ (sweep[s].pc = "send" /\ sweep'[s].pc # "send")
                    => /\ sweep'[s].pc = "receivers"
                       /\ Len(sweep'[s].attempts) = 1
                       /\ store' = store
              /\ (sweep[s].pc = "receivers" /\ sweep'[s] # sweep[s])
                    => /\ sweep'[s].pc \in {"receivers", "finished"}
                       /\ store' = store
              /\ (Sending(s) /\ sweep'[s].pc = "idle")
                    => sweep[s].evaluated = otherGroups]_vars

C24_Witness ==
    /\ sweep["scheduled"].pc = "finished"
    /\ sweep["scheduled"].attempts = <<Attempt(Owner, FALSE), Attempt("extra", TRUE)>>
    /\ sweep["scheduled"].evaluated = otherGroups
    /\ otherGroups > 0
    /\ sweep["scheduled"].alertLevel = 2
    /\ store.alertLevel = 2
    /\ alerts[2] = 0

\* the request is a group message, text or media, of the chat
GroupMessageOf(request, chat) ==
    /\ MessageContent(request).outcome = "message"
    /\ MessageContent(request).message.MsgType \in {"text", "image", "voice", "video"}
    /\ MessageContent(request).message.ChatId = chat

\* C25: once an encrypted and signed group message of a chat with no record
\* has been handled, the groups API being available, the chat has a record.
C25_FirstMessageCreatesRecord ==
    (/\ Answered("POST")
     /\ probe.api = "ok"
     /\ probe.request.encrypt_type = "aes"
     /\ GroupMessageOf(probe.request, UnknownChat))
    => UnknownChat \in probe.records

\* the terminal states of a request
Verified == probe.request.method = "GET" /\ probe.response.status = 200
Rejected == probe.request.method = "GET" /\ probe.response.status \in {400, 401, 500}
Processed ==
    probe.request.method = "POST" /\ MessageContent(probe.request).outcome = "message"
Ignored ==
    probe.request.method = "POST" /\ MessageContent(probe.request).outcome # "message"

\* C26: a request is answered once, no reply is sent before it has reached
\* its end, a challenge ends Verified or Rejected and a message delivery
\* Processed or Ignored, never both; the record is written by the first step
\* of the handler only, and nothing happens once the request is answered.
C26_OneTerminalStateOneResponse ==
    /\ [](/\ Len(probe.responses) = IF probe.pc = "done" THEN 1 ELSE 0
          /\ (probe.pc = "done" /\ probe.request.method = "GET")
                => (Verified /\ ~Rejected) \/ (Rejected /\ ~Verified)
          /\ (probe.pc = "done" /\ probe.request.method = "POST")
                => (Processed /\ ~Ignored) \/ (Ignored /\ ~Processed)
          /\ probe.pc = "processed" => Processed)
    /\ [][/\ probe.pc # "done"
          /\ <<store, received>>' # <<store, received>> => probe.pc = "ready"]_vars

C26_Witness ==
    /\ probe.pc = "done"
    /\ Processed
    /\ probe.request.encrypt_type = "aes"
    /\ store # probe.before
    /\ received = 1
    /\ probe.responses = <<Response(200, "success", <<>>)>>

\* C27: once a staff message has been recorded through the callback path,
\* lastMessage and lastEmployeeMessage are that message, alertLevel is 0 and
\* needAlert is false, whatever the record held before.
C27_StaffMessageRecordedAndReset ==
    (probe.pc = "done" /\ probe.message.fromType = "employee") =>
        /\ store.lastMessage = probe.message
        /\ store.lastEmployeeMessage = probe.message
        /\ store.alertLevel = 0
        /\ ~store.needAlert

\* the part of C27 that holds: on a groups API that stores each field of the
\* body, the staff message is recorded and the alert settings are reset
C27_OnFieldsServer == probe.server = "fields" => C27_StaffMessageRecordedAndReset

C27_FieldsWitness ==
    /\ probe.pc = "done"
    /\ probe.server = "fields"
    /\ probe.message.fromType = "employee"
    /\ probe.before.alertLevel = 2
    /\ store.alertLevel = 0

\* C29: processing a customer message on the webhook path sets lastMessage and
\* lastCustomerMessage to that message and leaves lastEmployeeMessage,
\* alertLevel and needAlert as they were
C29_CustomerMessageFrame ==
    (probe.pc = "done" /\ probe.message.fromType = "customer") =>
        /\ store.lastMessage = probe.message
        /\ store.lastCustomerMessage = probe.message
        /\ store.lastEmployeeMessage = probe.before.lastEmployeeMessage
        /\ store.alertLevel = probe.before.alertLevel
        /\ store.needAlert = probe.before.needAlert

\* what does hold for a customer message whatever the groups API does with the
\* body: the staff message and the alert settings are left alone
CustomerMessageLeavesAlertState ==
    (probe.pc = "done" /\ probe.message.fromType = "customer") =>
        /\ store.lastEmployeeMessage = probe.before.lastEmployeeMessage
        /\ store.alertLevel = probe.before.alertLevel
        /\ store.needAlert = probe.before.needAlert

CustomerMessageOnFieldsServer == probe.server = "fields" => C29_CustomerMessageFrame

CustomerMessageRecorded ==
    /\ probe.pc = "done"
    /\ probe.server = "fields"
    /\ probe.message.fromType = "customer"
    /\ probe.before.alertLevel = 2
    /\ probe.before.lastCustomerMessage # probe.message
    /\ store.lastCustomerMessage = probe.message

\* the level checkGroupResponse computes for the record at this time
ComputedLevel(group) ==
    ComputeAlertLevel(now - group.lastCustomerMessage.createTime, alertThresholds)

\* the write of the level the sweep computed has thrown: the sweep is in the
\* catch of checkGroupResponse, at this time and number of messages, and the
\* level is the one the record stands at now
LevelWriteFailed(s, level, t, r) ==
    /\ sweep[s].pc = "caught"
    /\ ~LastMessageFromEmployee(sweep[s].group)
    /\ sweep[s].alertLevel = level
    /\ ComputedLevel(sweep[s].group) = level
    /\ now = t
    /\ received = r

\* C28: in a sweep sendAlert is entered only by the write of the computed
\* level having succeeded, and alerts go out only from there; a sweep whose
\* write failed sends nothing till it ends, and the record, if no message
\* changed it, still holds a level other than the computed one; every sweep
\* that reads a record with a level other than the one it computes attempts
\* the write; so, time and record being the same, the next sweep that reads
\* the groups attempts the same write again.
C28_AlertOnlyAfterWrittenLevel ==
    /\ [](LET s == "scheduled"
          IN  sweep[s].pc = "caught"
                 => /\ sweep[s].attempts = <<>>
                    /\ (store = sweep[s].group /\ ~LastMessageFromEmployee(store))
                          => HasAlertChange(store, sweep[s].alertLevel))
    /\ [][LET s == "scheduled"
          IN  /\ (sweep[s].pc # "send" /\ sweep'[s].pc = "send")
                    => /\ sweep[s].pc = "update"
                       /\ store'.alertLevel = sweep[s].alertLevel
                       /\ store'.needAlert = sweep[s].needAlert
              /\ (sweep'[s].attempts # sweep[s].attempts /\ sweep'[s].attempts # <<>>)
                    => sweep[s].pc \in {"send", "receivers"}
              /\ alerts' # alerts => sweep[s].pc = "send"
              /\ (sweep[s].pc = "caught" /\ sweep'[s] # sweep[s])
                    => /\ sweep'[s].pc = "finished"
                       /\ store' = store
              /\ (sweep[s].pc = "finished" /\ sweep[s].attempts = <<>> /\ sweep'[s] # sweep[s])
                    => /\ sweep'[s].pc \in {"finished", "idle"}
                       /\ sweep'[s].attempts = <<>>
              /\ (sweep[s].pc = "check" /\ sweep'[s].pc # "check"
                     /\ sweep[s].group.lastCustomerMessage # NoMessage
                     /\ ~LastMessageFromEmployee(sweep[s].group)
                     /\ HasAlertChange(sweep[s].group, ComputedLevel(sweep[s].group)))
                    => /\ sweep'[s].pc = "update"
                       /\ sweep'[s].alertLevel = ComputedLevel(sweep[s].group)]_vars
    /\ \A level \in 0..MaxLevels : \A t \in 0..MaxTime : \A r \in 0..MaxMessages :
          (LevelWriteFailed("scheduled", level, t, r) /\ store = sweep["scheduled"].group)
             ~> \/ sweep["scheduled"].pc = "update" /\ sweep["scheduled"].alertLevel = level
                \/ sweep["scheduled"].pc = "thrown"
                \/ now # t
                \/ received # r

C28_Witness ==
    /\ sweep["scheduled"].pc = "caught"
    /\ sweep["scheduled"].needAlert
    /\ sweep["scheduled"].alertLevel = 2
    /\ sweep["scheduled"].group.alertLevel = 1
    /\ store = sweep["scheduled"].group
    /\ ComputedLevel(store) = 2
    /\ alerts[1] = 1
    /\ alerts[2] = 0

\* the staff reply is the last message recorded and no further message arrives
StaffReplyIsLast == received = MaxMessages /\ LastMessageFromEmployee(store)

\* sweep s read the record with the staff reply as its last message and is
\* through with the conversation
SweptAfterReply(s) ==
    /\ sweep[s].pc = "finished"
    /\ sweep[s].group.lastCustomerMessage # NoMessage
    /\ sweep[s].group.lastMessage = store.lastMessage

\* C30: once the staff reply is the last message recorded and no further
\* message arrives, whenever a sweep that read the reply is through with the
\* conversation, the next such sweep and every later one, the stored
\* alertLevel is 0 and needAlert is false.
C30_ResetAfterReplyIsFinal ==
    \A s \in Sweeps :
        (StaffReplyIsLast /\ SweptAfterReply(s))
           => (store.alertLevel = 0 /\ ~store.needAlert)

\* the same with one sweep at a time: the sweep that was under way when the
\* reply came may write its level after the reply, the sweep after it and
\* every later one leave the level reset
ResetAfterReplyIsFinalForOneSweep ==
    (StaffReplyIsLast /\ SweptAfterReply("scheduled"))
       => (store.alertLevel = 0 /\ ~store.needAlert)

\* the sweep under way has written a level over the reply
StaleLevelOverReply ==
    /\ StaffReplyIsLast
    /\ store.alertLevel = 1
    /\ sweep["scheduled"].pc = "send"
    /\ sweep["scheduled"].group.lastMessage # store.lastMessage

\* the sweep after it has reset the level, the alert of the stale sweep sent
ResetAfterStaleLevel ==
    /\ StaffReplyIsLast
    /\ SweptAfterReply("scheduled")
    /\ alerts[1] = 1
    /\ store.alertLevel = 0

\* C31: a sweep cycle always terminates, the groups API and the message API
\* slow or never answering: a sweep that has started comes to its end.
C31_SweepAlwaysTerminates ==
    sweep["scheduled"].pc # "idle" ~> sweep["scheduled"].pc = "idle"

\* sweep s awaits sendAppMessage, for the owner or an additional receiver
AwaitingSend(s) ==
    \/ sweep[s].pc = "send"
    \/ /\ sweep[s].pc = "receivers"
       /\ Addressed(additionalReceivers[sweep[s].receiver])

\* what the timeout of the groups API client gives: a sweep that has started
\* comes to its end or to a send
SweepEndsOrAwaitsSend ==
    sweep["scheduled"].pc # "idle"
       ~> (sweep["scheduled"].pc = "idle" \/ AwaitingSend("scheduled"))

\* the send attempts sweep s has made to the receiver
AttemptsTo(s, receiver) ==
    Cardinality({i \in DOMAIN sweep[s].attempts : sweep[s].attempts[i].receiver = receiver})

\* the entries of the additional receivers that name the receiver
EntriesOf(receiver) ==
    Cardinality({i \in DOMAIN additionalReceivers : additionalReceivers[i] = receiver})

\* sendAlert has returned to sweep s
SendAlertReturned(s) == sweep[s].pc = "finished" /\ sweep[s].attempts # <<>>

\* C33: one sendAlert call makes exactly one send attempt to the owner and one
\* to each configured additional receiver that is not empty and not the owner,
\* and none to anyone else.
C33_OneAttemptPerReceiver ==
    LET s == "scheduled"
    IN  SendAlertReturned(s) =>
           /\ AttemptsTo(s, Owner) = 1
           /\ \A receiver \in ReceiverIds \ {Owner} :
                 AttemptsTo(s, receiver) = IF EntriesOf(receiver) > 0 THEN 1 ELSE 0

\* C33 as the code has it: one attempt to the owner, then one for each entry
\* of the additional receivers that is not empty and not the owner, in the
\* order of the list; a receiver listed n times is tried n times, the owner
\* once whatever the list holds.
C33_OneAttemptPerEntry ==
    LET s == "scheduled"
    IN  SendAlertReturned(s) =>
           /\ AttemptsTo(s, Owner) = 1
           /\ sweep[s].attempts[1].receiver = Owner
           /\ \A receiver \in ReceiverIds \ {Owner} :
                 AttemptsTo(s, receiver) = EntriesOf(receiver)
           /\ Tried(s) = Receivers

C33_Witness ==
    /\ SendAlertReturned("scheduled")
    /\ additionalReceivers = <<Owner, "extra">>
    /\ Len(sweep["scheduled"].attempts) = 2

\* a receiver listed twice has been sent the alert twice
ListedTwiceTriedTwice ==
    /\ SendAlertReturned("scheduled")
    /\ additionalReceivers = <<"extra", "extra">>
    /\ AttemptsTo("scheduled", "extra") = 2

\* C32: the stored alertLevel is always a number from 0 to the number of
\* configured thresholds, and every write of it sets it to 0 or to the level
\* the threshold scan gave the sweep that writes it, whatever it was before.
C32_LevelIsZeroOrComputed ==
    /\ [](store.alertLevel \in 0..Len(alertThresholds))
    /\ [][store'.alertLevel # store.alertLevel =>
             \/ store'.alertLevel = 0
             \/ \E s \in Sweeps :
                   /\ sweep[s].pc = "update"
                   /\ sweep'[s].pc # "update"
                   /\ store'.alertLevel =
                         ComputeAlertLevel(sweep[s].minutesPassed, alertThresholds)]_vars

\* the level written from 0 to 2 at once, no alert of level 1 ever sent
C32_Witness ==
    /\ store.alertLevel = 2
    /\ store.needAlert
    /\ alerts[1] = 0
    /\ \E s \in Sweeps : sweep[s].pc = "send" /\ sweep[s].group.alertLevel = 0

\* the record as the groups API holds it
Record == Merge(store, probe.detail)

\* C34: syncGroupDetail of a tracked conversation sets name, owner and members
\* and nothing else: lastMessage, lastEmployeeMessage, lastCustomerMessage,
\* alertLevel and needAlert are as before at every point of it, and a sync
\* that fails returns null with the record as it was.
C34_SyncUpdatesDetailOnly ==
    /\ store = Restrict(probe.before, DOMAIN store)
    /\ (probe.pc = "done" /\ probe.returned = "group")
          => /\ probe.detail = probe.request
             /\ probe.group = Record
    /\ (probe.pc = "done" /\ probe.returned = "null") => Record = probe.before
    /\ probe.pc = "done" => probe.returned \in {"group", "null"}

C34_Witness ==
    /\ probe.pc = "done"
    /\ probe.returned = "group"
    /\ probe.before.name = "Old"
    /\ probe.detail.name = "Sales"
    /\ Len(probe.detail.members) = 2
    /\ store.alertLevel = 2
    /\ store.lastCustomerMessage # NoMessage

\* the group messages of the archive after the sequence number, in order
GroupRecordsAfter(archive, seq) ==
    LET hasRoomId(i) == archive[i] = "group"
    IN  SelectSeq(SeqRange(seq + 1, Len(archive)), hasRoomId)

\* C35: getAllChatRecordsFromGoService returns every group message of the
\* archive from startSeq onward: the loop ends only when the archive has no
\* further record, and no later group message is left out.
C35_ReturnsEveryGroupRecord ==
    probe.pc = "returned" =>
        /\ NoFurtherRecords(probe.archive, probe.currentSeq, probe.batchSize)
        /\ probe.allGroupRecords = GroupRecordsAfter(probe.archive, probe.startSeq)

\* what the loop does return: the group messages before the first page that
\* holds none, each once and in order
ReturnsGroupRecordsOfPagesRead ==
    probe.pc = "returned" =>
        /\ NoGroupRecords(probe.archive, probe.currentSeq, probe.batchSize)
        /\ probe.allGroupRecords =
              SelectSeq(GroupRecordsAfter(probe.archive, probe.startSeq),
                        LAMBDA i : i <= probe.currentSeq)

\* every page holds a group message: then the archive is returned whole
ReturnsEveryGroupRecordOfMixedPages ==
    (probe.pc = "returned"
        /\ NoFurtherRecords(probe.archive, probe.currentSeq, probe.batchSize))
       => probe.allGroupRecords = GroupRecordsAfter(probe.archive, probe.startSeq)

ArchiveReadToItsEnd ==
    /\ probe.pc = "returned"
    /\ Len(probe.archive) = MaxArchive
    /\ probe.batchSize = 2
    /\ Len(probe.allGroupRecords) = 3

ConnectedAtThirdAttempt ==
    /\ probe.pc = "returned"
    /\ probe.result
    /\ probe.attempts = 3
    /\ probe.connections = 3

\* C36: getAccessToken returns the cached token only before the recorded
\* expiry time, which is the time of the response plus expires_in minus 300
\* seconds; from that time on a call asks for a new token; and a fetch that
\* fails throws and leaves the token and the expiry time as they were.
C36_CachedTokenOnlyBeforeExpiry ==
    /\ [](\A c \in Callers :
             /\ (probe.call[c].pc = "returned" /\ probe.call[c].cached)
                   => /\ probe.call[c].at < probe.call[c].expire
                      /\ probe.call[c].token # 0
             /\ (probe.call[c].pc = "returned" /\ ~probe.call[c].cached)
                   => probe.call[c].token \in 1..probe.issued)
    /\ [][\A c \in Callers :
             /\ (probe.call[c].pc = "idle" /\ probe'.call[c].pc # "idle"
                    /\ now >= probe.tokenExpireTime)
                   => probe'.call[c].pc = "fetching"
             /\ (probe.call[c].pc = "fetching" /\ probe'.call[c].pc = "returned")
                   => /\ \E expires_in \in ExpiresIn :
                            probe'.tokenExpireTime = now + expires_in - 300
                      /\ probe'.call[c].token = probe'.accessToken
                      /\ probe'.accessToken # probe.accessToken
             /\ (probe.call[c].pc = "fetching" /\ probe'.call[c].pc = "thrown")
                   => /\ probe'.accessToken = probe.accessToken
                      /\ probe'.tokenExpireTime = probe.tokenExpireTime]_vars

\* a call has failed to fetch with an expired token cached, which is still
\* cached and not returned
C36_Witness ==
    /\ probe.call["sweep"].pc = "thrown"
    /\ probe.accessToken = 1
    /\ now >= probe.tokenExpireTime
    /\ probe.call["route"].pc = "returned"
    /\ probe.call["route"].cached
    /\ probe.call["route"].at = probe.tokenExpireTime - 100

\* C38: after any calls of recordVerification, recordMessage and resetStats,
\* recentErrors holds at most 10 entries, newest first, and they are the most
\* recent failures recorded since the last reset: all of them up to 10, the
\* last 10 beyond.
C38_RecentErrorsAreTheLastTen ==
    LET recentErrors == probe.recentErrors
        failures == probe.failures
    IN  /\ Len(recentErrors) <= 10
        /\ Len(recentErrors) = (IF Len(failures) < 10 THEN Len(failures) ELSE 10)
        /\ \A i \in 1..(Len(recentErrors) - 1) :
              recentErrors[i].timestamp > recentErrors[i + 1].timestamp
        /\ \A i \in 1..Len(recentErrors) :
              recentErrors[i] = failures[Len(failures) - i + 1]

\* more failures recorded than the list holds, of both kinds, after a reset
C38_Witness ==
    /\ Len(probe.failures) = 11
    /\ Len(probe.recentErrors) = 10
    /\ probe.clock = 12
    /\ probe.recentErrors[1].type = "message"
    /\ probe.recentErrors[10].type = "verification"
    /\ probe.recentErrors[10].timestamp = 3

====
